---- MODULE Spec2Model ----
(***************************************************************************)
(* Model of the Copilot UI stress-test engine.                             *)
(*                                                                         *)
(* The session orchestrator (automation.py, run_stress_test_logic) is a    *)
(* sequential program; pc is its position.  The resilient locator          *)
(* (find_element_with_dynamic_fallback, try_element_candidates) is a       *)
(* sub-machine whose position is loc.pc; the orchestrator waits at a       *)
(* "*_locate" position until the locator reaches "ret".  Every call into   *)
(* the accessibility backend (pywinauto) is an input of the action that    *)
(* makes it: the reply is drawn from the outcomes the backend can give     *)
(* (a node, ElementNotFoundError, MatchError, any other exception).        *)
(***************************************************************************)
EXTENDS Integers, Sequences, FiniteSets, TLC

\* ------------------------------------------------------------------ bounds
MaxMessages == 3
MaxCandidates == 2
MaxControls == 2
MaxEdits == 2
MaxWrites == 3

\* --------------------------------------------------------------- constants
NoElement == "None"
NoError == "None"

Exceptions == {"ElementNotFoundError", "MatchError", "Exception"}

\* ------------------------------------------------------------------- state
VARIABLES
    WINDOWS_AVAILABLE,  \* automation.py module flag (pywinauto importable)
    config,             \* the Config instance handed to the run
    window,             \* the target window's behaviour (live or fake)
    pc,                 \* position of run_stress_test_logic
    i,                  \* loop variable of the message loop
    success_count,      \* automation.py local success_count
    results,            \* sequence of dictionaries returned by the run
    loc,                \* the locator call in progress
    _should_stop,       \* worker.py StressTestWorker._should_stop
    hist,               \* observations of the run (backend calls made)
    scan,               \* one run of a tree scanner (debug.py, copilot_ui_debug.py)
    validation,         \* one call of enhanced_element_validation
    conf,               \* a Config object and the file it is saved to
    stream,             \* a ThrottledStreamToSignal (worker.py)
    gui                 \* gui.py Configurator: thread, worker, timer, button

vars == <<WINDOWS_AVAILABLE, config, window, pc, i, success_count,
          results, loc, _should_stop, hist, scan, validation, conf,
          stream, gui>>

\* The components that are exercised on their own (the tree scanners, the
\* readiness validator, the configuration object, the log stream) and the
\* window of the GUI; a run of the engine does not touch their state.
Outside == <<scan, validation, conf, stream, gui>>

\* --------------------------------------------------------- configuration
\* Pattern lists of a configuration (config.py __post_init__ defaults are
\* lists of identifiers/titles; a file loaded by the CLI can carry any).
PatternProfiles ==
    { [text |-> <<"A">>,      send |-> <<"B">>,      new |-> <<>>],
      [text |-> <<"X", "A">>, send |-> <<"Y", "B">>, new |-> <<"H">>] }

Configs ==
    { [ number_of_messages        |-> n,
        wait_time_seconds         |-> w,
        window_title_regex        |-> r,
        launch_if_not_found       |-> l,
        text_input_patterns       |-> p.text,
        send_button_patterns      |-> p.send,
        new_conversation_patterns |-> p.new,
        sample_messages           |-> m ] :
        n \in (0 - 1)..MaxMessages, w \in {0 - 1, 0},
        r \in {"^Copilot.*"}, l \in BOOLEAN, p \in PatternProfiles,
        m \in {<<>>, <<"hei">>} }

\* A validate whose first test is `number_of_messages < 0`.
validate_accepts_zero(c) ==
    /\ ~(c.number_of_messages < 0)
    /\ ~(c.wait_time_seconds < 0)
    /\ c.window_title_regex # ""
    /\ c.text_input_patterns # <<>>
    /\ c.send_button_patterns # <<>>
    /\ c.sample_messages # <<>>

\* Config.validate: True, or ValueError (modelled as FALSE).
validate(c) ==
    /\ ~(c.number_of_messages <= 0)
    /\ ~(c.wait_time_seconds < 0)
    /\ c.window_title_regex # ""
    /\ c.text_input_patterns # <<>>
    /\ c.send_button_patterns # <<>>
    /\ c.sample_messages # <<>>


\* -------------------------------------------------- accessibility backend
\* What a node answers to the queries the validator makes of it.
ReadyNode ==
    [exists |-> "yes", is_visible |-> "yes", is_enabled |-> "yes",
     set_focus |-> "ok", rectangle |-> "positive"]

NodeShapes ==
    {ReadyNode}
    \cup {[ReadyNode EXCEPT !.exists = v] : v \in {"no", "raise"}}
    \cup {[ReadyNode EXCEPT !.is_visible = v] : v \in {"no", "raise"}}
    \cup {[ReadyNode EXCEPT !.is_enabled = v] : v \in {"no", "raise"}}
    \cup {[ReadyNode EXCEPT !.set_focus = "raise"]}
    \cup {[ReadyNode EXCEPT !.rectangle = v] : v \in {"zero_width", "raise"}}

\* The target window: a live application (any reply to any call), or a fake
\* window that exposes ready nodes under the identifiers in `exposes`, whose
\* calls never fail and whose discovery finds no candidates.
Windows ==
    {[kind |-> "live", exposes |-> {}]}
    \cup {[kind |-> "fake", exposes |-> e] : e \in SUBSET {"A", "B"}}

\* Exceptions a backend call (connect, start, type_keys, wait, click_input)
\* can raise; "none" is a call that returns.
Raises == IF window.kind = "fake" THEN {"none"} ELSE {"none"} \cup Exceptions

\* window.child_window(<by>=value): the replies the backend can give.
child_window(by, value) ==
    IF window.kind = "fake"
    THEN IF by = "auto_id" /\ value \in window.exposes
         THEN {[exc |-> "none", node |-> ReadyNode]}
         ELSE {[exc |-> "ElementNotFoundError", node |-> ReadyNode],
               [exc |-> "none", node |-> [ReadyNode EXCEPT !.exists = "no"]]}
    ELSE {[exc |-> e, node |-> ReadyNode] : e \in Exceptions}
         \cup {[exc |-> "none", node |-> n] : n \in NodeShapes}

\* What the discovery helper does when dump_control_tree_via_script calls
\* it: the debug module cannot be imported ("ImportError"), the call of
\* debug.inspect_ui_elements raises ("Exception": a backend error, a
\* timeout), it returns None ("None": no backend, no window, an error it
\* caught itself), or it returns data.
HelperOutcomes ==
    IF window.kind = "fake" THEN {"None", "data"}
    ELSE {"ImportError", "Exception", "None", "data"}

Unavailable == {"ImportError", "Exception", "None"}

\* Lines 80-98: the try/except of dump_control_tree_via_script; data says
\* whether a dictionary is returned, exc is an exception that leaves it.
debug_data_uncaught(outcome) ==
    [data |-> outcome = "data", helper |-> outcome,
     exc |-> IF outcome = "Exception" THEN "Exception" ELSE "none"]

debug_data(outcome) ==
    [data |-> outcome = "data", helper |-> outcome, exc |-> "none"]

\* dump_control_tree_via_script: no data when the helper returns nothing (or
\* raises: every exception is caught there), else the number of candidates
\* in the list for the role.
dump_control_tree_via_script ==
    UNION {{[data |-> debug_data(o).data, helper |-> debug_data(o).helper,
             exc |-> debug_data(o).exc, n |-> n] :
                n \in IF o = "data" /\ window.kind # "fake"
                      THEN 0..MaxCandidates ELSE {0}} :
           o \in HelperOutcomes}

\* One candidate of a discovery list: which of its attributes are non-empty.
CandidateShapes ==
    [auto_id : {"", "id"}, title : {"", "title"}, control_type : {"", "Button"}]

NoCandidate == [auto_id |-> "", title |-> "", control_type |-> ""]

\* ------------------------------------------------------ readiness validator
\* enhanced_element_validation(element, element_type, pattern): the verdict,
\* its reason, and the queries made of the element, in the order made.
Verdict(ok, reason, queried) ==
    [ok |-> ok, reason |-> reason, queried |-> queried]

\* A validator that makes the three queries before it looks at any answer.
validation_queries_all(element, element_type) ==
    LET q == <<"exists", "is_visible", "is_enabled">>
    IN  IF "raise" \in {element.exists, element.is_visible, element.is_enabled}
        THEN Verdict(FALSE, "Validation error", q)
        ELSE IF element.exists = "no"
        THEN Verdict(FALSE, "Element does not exist", q)
        ELSE IF element.is_visible = "no"
        THEN Verdict(FALSE, "Element is not visible", q)
        ELSE IF element.is_enabled = "no"
        THEN Verdict(FALSE, "Element is not enabled", q)
        ELSE Verdict(TRUE, "Element validated", q)

enhanced_element_validation(element, element_type) ==
    IF element.exists = "raise"
    THEN Verdict(FALSE, "Validation error", <<"exists">>)
    ELSE IF element.exists = "no"
    THEN Verdict(FALSE, "Element does not exist", <<"exists">>)
    ELSE IF element.is_visible = "raise"
    THEN Verdict(FALSE, "Validation error", <<"exists", "is_visible">>)
    ELSE IF element.is_visible = "no"
    THEN Verdict(FALSE, "Element is not visible", <<"exists", "is_visible">>)
    ELSE IF element.is_enabled = "raise"
    THEN Verdict(FALSE, "Validation error",
                 <<"exists", "is_visible", "is_enabled">>)
    ELSE IF element.is_enabled = "no"
    THEN Verdict(FALSE, "Element is not enabled",
                 <<"exists", "is_visible", "is_enabled">>)
    ELSE IF element_type = "text_input"
    THEN IF element.set_focus = "ok"
         THEN Verdict(TRUE, "Valid text input found",
                      <<"exists", "is_visible", "is_enabled", "set_focus">>)
         ELSE Verdict(FALSE, "Cannot focus on text input element",
                      <<"exists", "is_visible", "is_enabled", "set_focus">>)
    ELSE IF element_type = "send_button"
    THEN IF element.rectangle = "raise"
         THEN Verdict(FALSE, "Cannot access button properties",
                      <<"exists", "is_visible", "is_enabled", "rectangle">>)
         ELSE IF element.rectangle = "positive"
         THEN Verdict(TRUE, "Valid button found",
                      <<"exists", "is_visible", "is_enabled", "rectangle">>)
         ELSE Verdict(FALSE, "Button has zero dimensions",
                      <<"exists", "is_visible", "is_enabled", "rectangle">>)
    ELSE Verdict(TRUE, "Element validated",
                 <<"exists", "is_visible", "is_enabled">>)

\* One call of the validator on its own: any element, any element type.
\* rectangle() gives a positive area, a zero width, a zero height, or raises.
Elements ==
    [exists : {"yes", "no", "raise"}, is_visible : {"yes", "no", "raise"},
     is_enabled : {"yes", "no", "raise"}, set_focus : {"ok", "raise"},
     rectangle : {"positive", "zero_width", "zero_height", "raise"}]

ElementTypes == {"text_input", "send_button", "new_conversation"}

ValidationIdle ==
    [pc |-> "idle", element |-> ReadyNode, element_type |-> "",
     result |-> Verdict(FALSE, "", <<>>)]

Validate ==
    /\ validation.pc = "start"
    /\ validation' =
          [validation EXCEPT
              !.pc = "validated",
              !.result = enhanced_element_validation(validation.element,
                                                     validation.element_type)]
    /\ UNCHANGED <<WINDOWS_AVAILABLE, config, window, pc, i, success_count,
                   results, loc, _should_stop, hist, scan, conf, stream, gui>>

\* validate_window(window, logger): exists, visible, enabled, then set_focus;
\* any exception is caught and gives False.
validate_window_skips_enabled(w) ==
    /\ w.exists = "yes"
    /\ w.is_visible = "yes"
    /\ w.set_focus = "ok"

validate_window(w) ==
    /\ w.exists = "yes"
    /\ w.is_visible = "yes"
    /\ w.is_enabled = "yes"
    /\ w.set_focus = "ok"

WindowShapes ==
    IF window.kind = "fake" THEN {ReadyNode}
    ELSE {n \in NodeShapes : n.rectangle = "positive"}

\* -------------------------------------------------------- resilient locator
\* The state of one find_element_with_dynamic_fallback call.  known_ready and
\* discovery record what the call has done so far: whether a known-pattern
\* lookup gave a node that passed validation, and what discovery returned;
\* helper is what the discovery helper did when it gave no data; node is the
\* element the call returns; untried holds the non-empty criteria of the
\* candidate just left for which no lookup was made.
LocIdle ==
    [pc |-> "idle", element_type |-> "", k |-> 0, n |-> 0, c |-> 0,
     cand |-> NoCandidate, element |-> NoElement, method |-> NoElement,
     exc |-> "none", known_ready |-> FALSE, discovery |-> "not_called",
     node |-> ReadyNode, helper |-> "not_called", untried |-> {}]

PatternsFor(element_type) ==
    CASE element_type = "text_input" -> config.text_input_patterns
      [] element_type = "send_button" -> config.send_button_patterns
      [] OTHER -> config.new_conversation_patterns

\* Entry of find_element_with_dynamic_fallback: `for pattern in patterns`.
StartLocate(element_type) ==
    IF PatternsFor(element_type) = <<>>
    THEN [LocIdle EXCEPT !.pc = "discover", !.element_type = element_type]
    ELSE [LocIdle EXCEPT !.pc = "known_auto_id", !.element_type = element_type,
                         !.k = 1]

\* `return element, method` / `return None, None`
Return(l, element, method) ==
    [l EXCEPT !.pc = "ret", !.element = element, !.method = method,
              !.cand = NoCandidate]

\* An exception that leaves find_element_with_dynamic_fallback.
Propagate(l, e) ==
    [l EXCEPT !.pc = "ret", !.exc = e, !.cand = NoCandidate]

\* End of one pass of `for pattern in patterns`.
NextPattern(l) ==
    IF l.k < Len(PatternsFor(l.element_type))
    THEN [l EXCEPT !.pc = "known_auto_id", !.k = l.k + 1]
    ELSE [l EXCEPT !.pc = "discover"]

\* End of one pass of `for candidate in candidates` (try_element_candidates);
\* an exhausted list gives (None, None) in both functions.
NextCandidate(l) ==
    IF l.c < l.n
    THEN [l EXCEPT !.pc = "cand_auto_id", !.c = l.c + 1, !.cand = NoCandidate]
    ELSE Return(l, NoElement, NoElement)

\* Lines 220-226: auto_id lookup of pattern k and its validation.
known_auto_id_skip(l, r) ==
    IF r.exc = "ElementNotFoundError" THEN [l EXCEPT !.pc = "known_title"]
    ELSE IF r.exc # "none" THEN Propagate(l, r.exc)
    ELSE IF enhanced_element_validation(r.node, l.element_type).ok
    THEN NextPattern([l EXCEPT !.known_ready = TRUE])
    ELSE NextPattern(l)

known_auto_id_step(l, r) ==
    IF r.exc = "ElementNotFoundError" THEN [l EXCEPT !.pc = "known_title"]
    ELSE IF r.exc # "none" THEN Propagate(l, r.exc)
    ELSE IF enhanced_element_validation(r.node, l.element_type).ok
    THEN Return([l EXCEPT !.known_ready = TRUE, !.node = r.node], "element",
                "known_pattern_auto_id")
    ELSE NextPattern(l)

\* Lines 226-232: title lookup of pattern k, after ElementNotFoundError.
known_title_step(l, r) ==
    IF r.exc = "ElementNotFoundError" THEN NextPattern(l)
    ELSE IF r.exc # "none" THEN Propagate(l, r.exc)
    ELSE IF enhanced_element_validation(r.node, l.element_type).ok
    THEN Return([l EXCEPT !.known_ready = TRUE, !.node = r.node], "element",
                "known_pattern_title")
    ELSE NextPattern(l)

\* Lines 235-253: dynamic discovery; d is what the helper returned.
discover_raises(l, d) ==
    IF d.exc # "none" THEN Propagate([l EXCEPT !.helper = d.helper], d.exc)
    ELSE IF ~d.data THEN Return([l EXCEPT !.discovery = "no_data",
                                          !.helper = d.helper],
                              NoElement, NoElement)
    ELSE IF d.n = 0 THEN Propagate([l EXCEPT !.discovery = "empty"], "Exception")
    ELSE [l EXCEPT !.discovery = "candidates", !.pc = "cand_auto_id",
                   !.n = d.n, !.c = 1]

discover_step(l, d) ==
    IF d.exc # "none" THEN Propagate([l EXCEPT !.helper = d.helper], d.exc)
    ELSE IF ~d.data THEN Return([l EXCEPT !.discovery = "no_data",
                                          !.helper = d.helper],
                              NoElement, NoElement)
    ELSE IF d.n = 0 THEN Return([l EXCEPT !.discovery = "empty"],
                              NoElement, NoElement)
    ELSE [l EXCEPT !.discovery = "candidates", !.pc = "cand_auto_id",
                   !.n = d.n, !.c = 1]

\* The criteria among `among` that candidate cand carries.
Criteria(cand, among) == {a \in among : cand[a] # ""}

\* try_element_candidates lines 163-178: read candidate c, auto_id lookup.
\* A lookup that resolves binds `element`, so a node that fails validation
\* skips the title and control_type lookups of this candidate; so does an
\* exception other than ElementNotFoundError (line 198).
cand_auto_id_step(l, cand, r) ==
    IF cand.auto_id = "" THEN [l EXCEPT !.pc = "cand_title", !.cand = cand]
    ELSE IF r.exc = "ElementNotFoundError"
    THEN [l EXCEPT !.pc = "cand_title", !.cand = cand]
    ELSE IF r.exc = "none"
            /\ enhanced_element_validation(r.node, l.element_type).ok
    THEN Return([l EXCEPT !.node = r.node], "element", "dynamic_discovery")
    ELSE NextCandidate([l EXCEPT !.untried =
                            Criteria(cand, {"title", "control_type"})])

\* Lines 180-187: title lookup (`if title and not element`).
cand_title_step(l, r) ==
    IF l.cand.title = "" THEN [l EXCEPT !.pc = "cand_control_type"]
    ELSE IF r.exc = "ElementNotFoundError"
    THEN [l EXCEPT !.pc = "cand_control_type"]
    ELSE IF r.exc = "none"
            /\ enhanced_element_validation(r.node, l.element_type).ok
    THEN Return([l EXCEPT !.node = r.node], "element", "dynamic_discovery")
    ELSE NextCandidate([l EXCEPT !.untried =
                            Criteria(l.cand, {"control_type"})])

\* Lines 189-199: control_type lookup (`if control_type and not element`).
cand_control_type_step(l, r) ==
    IF l.cand.control_type = "" THEN NextCandidate(l)
    ELSE IF r.exc # "none" THEN NextCandidate(l)
    ELSE IF enhanced_element_validation(r.node, l.element_type).ok
    THEN Return([l EXCEPT !.node = r.node], "element", "dynamic_discovery")
    ELSE NextCandidate(l)

LocatorUnchanged ==
    UNCHANGED <<WINDOWS_AVAILABLE, config, window, pc, i,
                success_count, results, _should_stop, hist, Outside>>

KnownAutoId ==
    /\ loc.pc = "known_auto_id"
    /\ loc' \in {known_auto_id_step(loc, r) :
                  r \in child_window("auto_id", PatternsFor(loc.element_type)[loc.k])}
    /\ LocatorUnchanged

KnownTitle ==
    /\ loc.pc = "known_title"
    /\ loc' \in {known_title_step(loc, r) :
                  r \in child_window("title", PatternsFor(loc.element_type)[loc.k])}
    /\ LocatorUnchanged

Discover ==
    /\ loc.pc = "discover"
    /\ loc' \in {discover_step(loc, d) : d \in dump_control_tree_via_script}
    /\ LocatorUnchanged

CandAutoId ==
    /\ loc.pc = "cand_auto_id"
    /\ loc' \in UNION {{cand_auto_id_step([loc EXCEPT !.untried = {}], cand, r) :
                            r \in child_window("auto_id", cand.auto_id)} :
                        cand \in CandidateShapes}
    /\ LocatorUnchanged

CandTitle ==
    /\ loc.pc = "cand_title"
    /\ loc' \in {cand_title_step(loc, r) :
                  r \in child_window("title", loc.cand.title)}
    /\ LocatorUnchanged

CandControlType ==
    /\ loc.pc = "cand_control_type"
    /\ loc' \in {cand_control_type_step(loc, r) :
                  r \in child_window("control_type", loc.cand.control_type)}
    /\ LocatorUnchanged

Locator ==
    \/ KnownAutoId
    \/ KnownTitle
    \/ Discover
    \/ CandAutoId
    \/ CandTitle
    \/ CandControlType


\* ------------------------------------------------------ session orchestrator
Inputs == <<WINDOWS_AVAILABLE, config, window>>

\* `return {'success': ..., 'total': config.number_of_messages, ...}`
Finish(success, error) ==
    /\ results' = Append(results, [success |-> success,
                                   total |-> config.number_of_messages,
                                   error |-> error])
    /\ pc' = "done"

\* main.py main -> run_stress_test: the configuration loaded from the file
\* (or the default one) is handed to the run as it is.
main ==
    /\ pc = "entry"
    /\ pc' = "start"
    /\ UNCHANGED <<Inputs, Outside, _should_stop, i, success_count, results, loc, hist>>

\* gui.py Configurator.start_test: Config.validate first; a ValueError is
\* reported and no worker is started.
start_test ==
    /\ pc = "entry"
    /\ pc' = IF validate(config) THEN "start" ELSE "rejected"
    /\ UNCHANGED <<Inputs, Outside, _should_stop, i, success_count, results, loc, hist>>

\* main.py run_stress_test lines 62-82: the exit code for the dictionary
\* run_stress_test_logic returned.
exit_code_partial_fails(result) ==
    IF result.error # NoError THEN 1
    ELSE IF result.success < result.total THEN 1
    ELSE 0

exit_code(result) ==
    IF result.error # NoError THEN 1
    ELSE IF result.success = 0 THEN 1
    ELSE IF result.success < result.total THEN 0
    ELSE 0

\* main.py run_stress_test, after run_stress_test_logic has returned:
\* sys.exit (SystemExit passes the `except Exception` of line 84).
sys_exit ==
    /\ pc = "done"
    /\ pc' = "exited"
    /\ hist' = [hist EXCEPT !.exit_code = exit_code(results[Len(results)])]
    /\ UNCHANGED <<Inputs, Outside, _should_stop, i, success_count, results, loc>>

\* Lines 281-289.
Begin ==
    /\ pc = "start"
    /\ IF ~WINDOWS_AVAILABLE
       THEN /\ Finish(0, "pywinauto not available")
            /\ UNCHANGED success_count
       ELSE /\ pc' = "connect"
            /\ success_count' = 0
            /\ UNCHANGED results
    /\ UNCHANGED <<Inputs, Outside, _should_stop, i, loc, hist>>

\* Lines 297-317 and 386-389: where a failed first connect leads.
connect_failed(e, launch_if_not_found) ==
    IF e \in {"ElementNotFoundError", "MatchError"}
    THEN IF launch_if_not_found
         THEN "launch"
         ELSE "Could not find Copilot window and auto-launch is disabled"
    ELSE "An unexpected critical error occurred"

\* Lines 292-317: Application.connect(timeout=5) and app.window.
Connect ==
    /\ pc = "connect"
    /\ \E e \in Raises :
          /\ hist' = [hist EXCEPT !.connects = @ + 1, !.first_connect = e]
          /\ IF e = "none"
             THEN pc' = "validate" /\ UNCHANGED results
             ELSE LET next == connect_failed(e, config.launch_if_not_found)
                  IN  IF next = "launch"
                      THEN pc' = next /\ UNCHANGED results
                      ELSE Finish(0, next)
    /\ UNCHANGED <<Inputs, Outside, _should_stop, i, success_count, loc>>

\* Lines 300-304 and 310-313: Application.start(copilot_launch_command).
Launch ==
    /\ pc = "launch"
    /\ \E e \in Raises :
          /\ hist' = [hist EXCEPT !.launches = @ + 1, !.launch = e]
          /\ IF e = "none"
             THEN pc' = "reconnect" /\ UNCHANGED results
             ELSE Finish(0, "Failed to launch or connect to Copilot after launch")
    /\ UNCHANGED <<Inputs, Outside, _should_stop, i, success_count, loc>>

\* Lines 306-313: the connect after the launch (timeout=15).
Reconnect ==
    /\ pc = "reconnect"
    /\ \E e \in Raises :
          /\ hist' = [hist EXCEPT !.connects = @ + 1, !.retry = e]
          /\ IF e = "none"
             THEN pc' = "validate" /\ UNCHANGED results
             ELSE Finish(0, "Failed to launch or connect to Copilot after launch")
    /\ UNCHANGED <<Inputs, Outside, _should_stop, i, success_count, loc>>

\* Lines 319-328: validate_window, then the new-conversation locate starts.
ValidateWindow ==
    /\ pc = "validate"
    /\ \E w \in WindowShapes :
          /\ hist' = [hist EXCEPT !.window_checked = TRUE,
                                  !.window_node = w,
                                  !.interacted = validate_window(w)]
          /\ IF validate_window(w)
             THEN /\ pc' = "new_locate"
                  /\ loc' = StartLocate("new_conversation")
                  /\ UNCHANGED results
             ELSE /\ Finish(0, "Window validation failed after connection attempt")
                  /\ UNCHANGED loc
    /\ UNCHANGED <<Inputs, Outside, _should_stop, i, success_count>>

\* Lines 325-336: the locate returned (or raised: caught at line 335).
NewConversation ==
    /\ pc = "new_locate"
    /\ loc.pc = "ret"
    /\ IF loc.exc = "none" /\ loc.element # NoElement
       THEN pc' = "new_click" /\ UNCHANGED hist
       ELSE /\ pc' = "loop"
            /\ hist' = [hist EXCEPT !.new_session =
                            IF loc.exc = "none" THEN "not_found"
                                                ELSE "locate_raised"]
    /\ loc' = LocIdle
    /\ UNCHANGED <<Inputs, Outside, _should_stop, i, success_count, results>>

\* Line 335: `except Exception` around the new-conversation step logs a
\* warning; the error it contributes to the result of the run (none).
new_conversation_aborts(e) ==
    IF e = "none" THEN NoError ELSE "Error starting new conversation"

new_conversation_error(e) == NoError

\* Lines 330-336: new_chat_element.click_input(); an exception is caught.
NewClick ==
    /\ pc = "new_click"
    /\ \E e \in Raises :
          /\ hist' = [hist EXCEPT !.new_session =
                          IF e = "none" THEN "activated" ELSE "click_raised"]
          /\ IF new_conversation_error(e) = NoError
             THEN pc' = "loop" /\ UNCHANGED results
             ELSE Finish(0, new_conversation_error(e))
    /\ UNCHANGED <<Inputs, Outside, _should_stop, i, success_count, loc>>

\* The positions inside the message loop (lines 339-377).
LoopPositions ==
    {"loop", "choose", "text_locate", "clear", "type", "send_locate",
     "wait", "click", "count", "sleep"}

\* `for i in range(1, config.number_of_messages + 1)`
range_stalls(n) == n

range_next(n) == n + 1

\* The error of the result returned after the loop (line 380: none).
loop_error_on_partial(success, total) ==
    IF success < total THEN "Not all messages were sent" ELSE NoError

loop_error(success, total) == NoError

\* Lines 339 and 379-380: next iteration, or the result after the loop.
LoopHead ==
    /\ pc = "loop"
    /\ IF i < config.number_of_messages
       THEN /\ i' = range_next(i)
            /\ pc' = "choose"
            /\ hist' = [hist EXCEPT !.started = @ \cup {range_next(i)},
                                    !.new_session = "unset",
                                    !.wait_timed_out = FALSE]
            /\ UNCHANGED results
       ELSE /\ Finish(success_count,
                      loop_error(success_count, config.number_of_messages))
            /\ UNCHANGED <<i, hist>>
    /\ UNCHANGED <<Inputs, Outside, _should_stop, success_count, loc>>

\* Lines 341-347: random.choice(config.sample_messages) (IndexError on an
\* empty list, caught at line 375), then the text_input locate starts.
Choose ==
    /\ pc = "choose"
    /\ IF config.sample_messages = <<>>
       THEN pc' = "loop" /\ UNCHANGED loc
       ELSE pc' = "text_locate" /\ loc' = StartLocate("text_input")
    /\ UNCHANGED <<Inputs, Outside, _should_stop, i, success_count, results, hist>>

\* A loop body that goes on to clear and type after a miss.
TextLocated_goes_on ==
    /\ pc = "text_locate"
    /\ loc.pc = "ret"
    /\ pc' = "clear"
    /\ loc' = LocIdle
    /\ UNCHANGED <<Inputs, Outside, _should_stop, i, success_count, results, hist>>

\* Lines 348-350: `if not text_box: continue`; a raise goes to line 375.
TextLocated ==
    /\ pc = "text_locate"
    /\ loc.pc = "ret"
    /\ pc' = IF loc.exc = "none" /\ loc.element # NoElement
             THEN "clear" ELSE "loop"
    /\ loc' = LocIdle
    /\ UNCHANGED <<Inputs, Outside, _should_stop, i, success_count, results, hist>>

\* Line 353: text_box.type_keys("^a{BACKSPACE}")
Clear ==
    /\ pc = "clear"
    /\ \E e \in Raises : pc' = IF e = "none" THEN "type" ELSE "loop"
    /\ UNCHANGED <<Inputs, Outside, _should_stop, i, success_count, results, loc, hist>>

\* Lines 354-359: text_box.type_keys(message), then the send_button locate.
Type ==
    /\ pc = "type"
    /\ \E e \in Raises :
          IF e = "none"
          THEN pc' = "send_locate" /\ loc' = StartLocate("send_button")
          ELSE pc' = "loop" /\ UNCHANGED loc
    /\ UNCHANGED <<Inputs, Outside, _should_stop, i, success_count, results, hist>>

\* Lines 360-362: `if not send_button: continue`
SendLocated ==
    /\ pc = "send_locate"
    /\ loc.pc = "ret"
    /\ pc' = IF loc.exc = "none" /\ loc.element # NoElement
             THEN "wait" ELSE "loop"
    /\ loc' = LocIdle
    /\ UNCHANGED <<Inputs, Outside, _should_stop, i, success_count, results, hist>>

\* Line 365: send_button.wait('enabled', timeout=5) raises when the button
\* is not enabled within the timeout; where the exception leads (line 375).
wait_failed_clicks == "click"

wait_failed == "loop"

WaitEnabled ==
    /\ pc = "wait"
    /\ \E e \in Raises :
          IF e = "none"
          THEN pc' = "click" /\ UNCHANGED hist
          ELSE /\ pc' = wait_failed
               /\ hist' = [hist EXCEPT !.wait_timed_out = TRUE]
    /\ UNCHANGED <<Inputs, Outside, _should_stop, i, success_count, results, loc>>

\* Line 366: send_button.click_input()
Click ==
    /\ pc = "click"
    /\ \E e \in Raises :
          IF e = "none"
          THEN /\ pc' = "count"
               /\ hist' = [hist EXCEPT !.activated = @ \cup {i}]
          ELSE pc' = "loop" /\ UNCHANGED hist
    /\ UNCHANGED <<Inputs, Outside, _should_stop, i, success_count, results, loc>>

\* Line 369: success_count += 1
count_twice(n) == n + 2

count(n) == n + 1

Count ==
    /\ pc = "count"
    /\ success_count' = count(success_count)
    /\ pc' = "sleep"
    /\ UNCHANGED <<Inputs, Outside, _should_stop, i, results, loc, hist>>

\* Lines 371-377: time.sleep(wait_time_seconds) unless this was the last
\* message; a negative value raises ValueError, caught at line 375.
\* hist.slept holds the iterations after which the delay was slept.
Sleep ==
    /\ pc = "sleep"
    /\ pc' = "loop"
    /\ hist' = [hist EXCEPT !.slept = IF i < config.number_of_messages
                                      THEN @ \cup {i} ELSE @]
    /\ UNCHANGED <<Inputs, Outside, _should_stop, i, success_count, results, loc>>

\* The two entry paths, and run_stress_test_logic itself.
Entry ==
    \/ main
    \/ start_test

Engine ==
    \/ Begin
    \/ Connect
    \/ Launch
    \/ Reconnect
    \/ ValidateWindow
    \/ NewConversation
    \/ NewClick
    \/ LoopHead
    \/ Choose
    \/ TextLocated
    \/ Clear
    \/ Type
    \/ SendLocated
    \/ WaitEnabled
    \/ Click
    \/ Count
    \/ Sleep

Orchestrator == Entry \/ Engine

\* ------------------------------------------------------------------- worker
\* gui.py Configurator.__init__ lines 72-74 and 211: no thread, no worker, no
\* timer, the Start button enabled.  pending holds the finished signals of
\* the worker that wait in the event queue of the GUI thread, report the last
\* completion dialog shown, created the number of workers created, warned
\* that the "Test Running" warning has been shown.
GuiIdle ==
    [thread |-> "None", worker |-> FALSE, timer |-> "None", button |-> TRUE,
     pending |-> <<>>, report |-> "none", created |-> 0, warned |-> FALSE]

Idle == <<scan, validation, conf, stream>>

\* A start_test that warns and then goes on.
start_test_unguarded(g, valid) ==
    IF ~valid THEN [g EXCEPT !.button = TRUE, !.warned = (g.thread = "running")]
    ELSE [g EXCEPT !.thread = "running", !.worker = TRUE, !.timer = "active",
                   !.button = FALSE, !.created = @ + 1,
                   !.warned = (g.thread = "running")]

\* gui.py start_test lines 298-352 on the window's state: a warning and
\* nothing else while a thread is running; a configuration that fails validate() (line 310) is
\* reported and the button re-enabled; otherwise a thread, a worker and a
\* single-shot timeout timer are created and the button is disabled.
start_test_on(g, valid) ==
    IF g.thread = "running" THEN [g EXCEPT !.warned = TRUE]
    ELSE IF ~valid THEN [g EXCEPT !.button = TRUE]
    ELSE [g EXCEPT !.thread = "running", !.worker = TRUE, !.timer = "active",
                   !.button = FALSE, !.created = @ + 1]

\* worker.py get_result (233-240) as read at gui.py lines 391-394: an empty
\* self.result reads as 0 of 0 with no error.
get_result ==
    IF results = <<>> THEN [success |-> 0, total |-> 0, error |-> NoError]
    ELSE results[Len(results)]

\* gui.py lines 396-403: the completion dialog for a result.
report(result) ==
    IF result.error # NoError THEN "failed"
    ELSE IF result.success = result.total THEN "success"
    ELSE "issues"

\* gui.py on_test_finished lines 376-415.
on_test_finished(g, result) ==
    [g EXCEPT !.button = TRUE, !.timer = "None",
              !.report = IF g.worker THEN report(result) ELSE @,
              !.worker = FALSE, !.thread = "None"]

\* btn_start.clicked (line 211), or any other call of start_test; the model
\* follows one test, so a start with no thread running is taken once.  The
\* GUI thread is not inside one of its handlers.
clicked ==
    /\ hist.thread_calls # <<"stop", "quit">>
    /\ hist.handler # "closeEvent"
    /\ pc = "entry" \/ gui.thread = "running"
    /\ gui' = start_test_on(gui, validate(config))
    /\ pc' = IF gui.thread = "running" THEN pc
             ELSE IF validate(config) THEN "worker_run" ELSE "rejected"
    /\ UNCHANGED <<Inputs, Idle, _should_stop, i, success_count, results, loc, hist>>

\* worker.py StressTestWorker.run, lines 134-154: where the call goes after
\* the import and the first lines of the try.  An ImportError returns at
\* line 139, before the try; the stop flag is read once, before
\* run_stress_test_logic(self.config, logger) is called, and a worker
\* stopped before execution leaves self.result empty.
run_outcome(o, stopped) ==
    IF o = "ImportError" THEN "returned"
    ELSE IF o = "raise" THEN "raised"
    ELSE IF stopped THEN "stopped" ELSE "start"

\* thread.started -> worker.run (gui.py line 332); lines 166-175 give
\* self.result for an exception raised inside the try.
run ==
    /\ pc = "worker_run"
    /\ \E o \in {"ok", "ImportError", "raise"} :
          /\ pc' = run_outcome(o, _should_stop)
          /\ results' = IF o = "raise"
                        THEN <<[success |-> 0,
                                total |-> config.number_of_messages,
                                error |-> "Unhandled exception in worker thread"]>>
                        ELSE results
    /\ UNCHANGED <<Inputs, Outside, _should_stop, i, success_count, loc, hist>>

\* worker.py lines 156-185: the result is logged, and the finally clause
\* emits finished, which is queued for the slots of the GUI thread.
run_finally ==
    /\ pc \in {"done", "stopped", "raised"}
    /\ pc' = "returned"
    /\ hist' = [hist EXCEPT !.finished = @ + 1]
    /\ gui' = [gui EXCEPT !.pending = Append(@, "finished")]
    /\ UNCHANGED <<Inputs, Idle, _should_stop, i, success_count, results, loc>>

\* The GUI thread delivers a queued finished signal to its slots (gui.py
\* lines 333-336): on_test_finished, thread.quit, test_timeout_timer.stop.
worker_finished ==
    /\ gui.pending # <<>>
    /\ hist.thread_calls # <<"stop", "quit">>
    /\ hist.handler # "closeEvent"
    /\ gui' = [on_test_finished(gui, get_result) EXCEPT !.pending = Tail(@)]
    /\ UNCHANGED <<Inputs, Idle, pc, _should_stop, i, success_count, results, loc, hist>>

\* StressTestWorker.stop (worker.py lines 122-124) sets the flag; both GUI
\* handlers call it first and then ask the thread to quit.  hist.stop_in_loop
\* records that the request was made while the message loop was running,
\* hist.thread_calls the calls the handler has made on the worker and its
\* thread, in order.
stop(handler) ==
    /\ hist.handler = "none"
    /\ gui.thread = "running"
    /\ _should_stop' = TRUE
    /\ hist' = [hist EXCEPT !.stop_in_loop = (pc \in LoopPositions),
                            !.handler = handler,
                            !.thread_calls = <<"stop", "quit">>]
    /\ UNCHANGED <<Inputs, Idle, pc, i, success_count, results, loc>>

\* gui.py lines 354-362: the single-shot timeout timer fires (it is active
\* from start_test until on_test_finished stops it): worker.stop(), then
\* thread.quit(); the handler then blocks in thread.wait(5000).
on_test_timeout ==
    /\ gui.timer = "active"
    /\ stop("on_test_timeout")
    /\ gui' = [gui EXCEPT !.timer = "expired"]

\* gui.py lines 448-465: the window is closed while the thread is running and
\* the user answers Yes (No leaves everything as it is): worker.stop(), then
\* thread.quit(); the handler then blocks in thread.wait(5000).
closeEvent ==
    /\ stop("closeEvent")
    /\ UNCHANGED gui

\* An on_test_timeout that returns after the wait, without on_test_finished.
after_wait_returns(g, handler, result) ==
    IF handler = "on_test_timeout" THEN g
    ELSE [g EXCEPT !.thread = "finished"]

\* What follows the wait in the handler: on_test_timeout waits for the
\* thread and calls on_test_finished (lines 366-369); closeEvent accepts the
\* event (line 469) and the window closes.
after_wait(g, handler, result) ==
    IF handler = "on_test_timeout" THEN on_test_finished(g, result)
    ELSE [g EXCEPT !.thread = "finished"]

\* gui.py lines 364 and 466: thread.wait(5000) returned True: run had
\* returned, so the thread's event loop took the quit within the five
\* seconds; the handler makes no further call on the thread.
wait ==
    /\ hist.thread_calls = <<"stop", "quit">>
    /\ pc = "returned"
    /\ hist' = [hist EXCEPT !.thread_calls = Append(@, "wait")]
    /\ gui' = after_wait(gui, hist.handler, get_result)
    /\ UNCHANGED <<Inputs, Idle, _should_stop, pc, i, success_count, results, loc>>

\* A handler that kills the thread without having asked it to stop.
terminate_at_once ==
    /\ gui.thread = "running"
    /\ pc \notin {"returned", "terminated"}
    /\ pc' = "terminated"
    /\ loc' = LocIdle
    /\ hist' = [hist EXCEPT !.thread_calls = Append(@, "terminate")]
    /\ gui' = [gui EXCEPT !.thread = "finished"]
    /\ UNCHANGED <<Inputs, Idle, _should_stop, i, success_count, results>>

\* gui.py lines 364-366 and 466-467: thread.wait(5000) returned False, run
\* had not returned when the five seconds had passed (how far the run gets in
\* five seconds is left open); thread.terminate() kills the worker thread
\* wherever it is, and what run had not yet assigned or emitted never is.
terminate ==
    /\ hist.thread_calls = <<"stop", "quit">>
    /\ pc \notin {"returned", "terminated"}
    /\ pc' = "terminated"
    /\ loc' = LocIdle
    /\ hist' = [hist EXCEPT !.thread_calls = @ \o <<"wait", "terminate">>]
    /\ gui' = after_wait(gui, hist.handler, get_result)
    /\ UNCHANGED <<Inputs, Idle, _should_stop, i, success_count, results>>

\* ------------------------------------------------------------------ strings
\* str.lower(), `k in s` and re.search for the patterns the scanners use
\* (literal pieces joined by `.*`, optionally anchored with ^ and $).
UpperCase == "ABCDEFGHIJKLMNOPQRSTUVWXYZ"

LowerCase == "abcdefghijklmnopqrstuvwxyz"

lower_char(c) ==
    IF \E p \in 1..Len(UpperCase) : SubSeq(UpperCase, p, p) = c
    THEN LET p == CHOOSE q \in 1..Len(UpperCase) : SubSeq(UpperCase, q, q) = c
         IN  SubSeq(LowerCase, p, p)
    ELSE c

RECURSIVE lower(_)
lower(s) ==
    IF s = "" THEN ""
    ELSE lower_char(SubSeq(s, 1, 1)) \o lower(SubSeq(s, 2, Len(s)))

\* `k in s`
contains(s, k) ==
    \E p \in 1..(Len(s) - Len(k) + 1) : SubSeq(s, p, p + Len(k) - 1) = k

\* any(k in s for k in keywords)
contains_any(s, keywords) ==
    \E n \in 1..Len(keywords) : contains(s, keywords[n])

\* A pattern 'a.*b.*c': parts <<"a", "b", "c">>; start and end are the
\* anchors ^ and $.
Pattern(src, parts, start, end) ==
    [src |-> src, parts |-> parts, start |-> start, end |-> end]

RECURSIVE match_from(_, _, _, _)
match_from(p, s, n, from) ==
    IF n > Len(p.parts) THEN TRUE
    ELSE LET part == p.parts[n]
         IN  \E at \in from..(Len(s) - Len(part) + 1) :
                /\ SubSeq(s, at, at + Len(part) - 1) = part
                /\ (p.start /\ n = 1) => at = 1
                /\ (p.end /\ n = Len(p.parts)) => at + Len(part) - 1 = Len(s)
                /\ match_from(p, s, n + 1, at + Len(part))

\* re.search(pattern, s)
search(p, s) == match_from(p, s, 1, 1)

\* The first pattern of the list that matches s, 0 when none does
\* (`for pattern in patterns: if re.search(...): ...; break`).
first_match(patterns, s) ==
    IF \E n \in 1..Len(patterns) : search(patterns[n], s)
    THEN CHOOSE n \in 1..Len(patterns) :
            /\ search(patterns[n], s)
            /\ \A m \in 1..(n - 1) : ~search(patterns[m], s)
    ELSE 0

\* ------------------------------------------------------------ tree scanners
\* A descendant of the window as the backend presents it: its attributes,
\* and what is_visible() and is_enabled() answer ("raise": the query fails).
Node(auto_id, title, control_type, is_visible, is_enabled) ==
    [auto_id |-> auto_id, title |-> title, control_type |-> control_type,
     class_name |-> "", is_visible |-> is_visible, is_enabled |-> is_enabled]

InteractableNodes ==
    { Node("InputTextBox", "", "Edit", "yes", "yes"),
      Node("", "", "Edit", "yes", "yes"),
      Node("", "", "Custom", "yes", "yes"),
      Node("OldComposerMicButton", "Snakk med Copilot", "Button", "yes", "yes"),
      Node("", "Send", "Button", "yes", "yes"),
      Node("", "", "Button", "yes", "yes"),
      Node("HomeButton", "Ny samtale", "Button", "yes", "yes"),
      Node("", "", "Pane", "yes", "yes") }

NonInteractableNodes ==
    { Node("InputTextBox", "", "Edit", "no", "yes"),
      Node("InputTextBox", "", "Edit", "raise", "yes"),
      Node("OldComposerMicButton", "Snakk med Copilot", "Button", "yes", "no"),
      Node("HomeButton", "Ny samtale", "Button", "yes", "raise") }

Nodes == InteractableNodes \cup NonInteractableNodes

\* window.descendants(): the nodes in the backend's enumeration order.
Descendants == UNION {[1..n -> Nodes] : n \in 0..MaxControls}

\* ---- debug.py (the scanner the locator of automation.py calls)
\* extract_element_info: a failed query leaves the default (False).
extract_element_info(element) ==
    [auto_id |-> element.auto_id, title |-> element.title,
     control_type |-> element.control_type, class_name |-> element.class_name,
     is_visible |-> (element.is_visible = "yes"),
     is_enabled |-> (element.is_enabled = "yes")]

is_likely_text_input(element_info) ==
    \/ contains_any(lower(element_info.control_type),
                    <<"edit", "text", "document", "custom">>)
    \/ contains_any(lower(element_info.auto_id),
                    <<"input", "textbox", "compose", "message", "chat",
                      "edit", "text", "type", "enter">>)
    \/ contains_any(lower(element_info.class_name),
                    <<"edit", "textbox", "input", "compose">>)

is_likely_send_button(element_info) ==
    /\ contains_any(lower(element_info.control_type),
                    <<"button", "custom", "menuitem">>)
    /\ contains_any(lower(lower(element_info.auto_id) \o " "
                          \o lower(element_info.title)),
                    <<"send", "submit", "post", "snakk", "mic", "microphone",
                      "composer", "oldcomposer", "copilot", "arrow", "icon">>)

is_likely_new_conversation_button(element_info) ==
    /\ contains_any(lower(element_info.control_type),
                    <<"button", "custom", "menuitem">>)
    /\ contains_any(lower(lower(element_info.auto_id) \o " "
                          \o lower(element_info.title)),
                    <<"home", "hjem", "new", "ny", "conversation", "samtale",
                      "fresh", "start", "begin">>)

\* Line 241 of debug.py and lines 83, 145, 207 of copilot_ui_debug.py.
is_candidate_any(control) == TRUE

is_candidate(control) == control.is_visible /\ control.is_enabled

\* inspect_ui_elements lines 229-266, for the list window.descendants() gave.
inspect_ui_elements(descendants) ==
    LET element_info == [k \in 1..Len(descendants) |->
                            extract_element_info(descendants[k])]
    IN  [text_input_candidates |->
            SelectSeq(element_info,
                      LAMBDA e : is_candidate(e) /\ is_likely_text_input(e)),
         send_button_candidates |->
            SelectSeq(element_info,
                      LAMBDA e : is_candidate(e) /\ is_likely_send_button(e)),
         new_conversation_candidates |->
            SelectSeq(element_info,
                      LAMBDA e : is_candidate(e)
                                 /\ is_likely_new_conversation_button(e)),
         total_elements |-> Len(element_info)]

\* ---- copilot_ui_debug.py (the scoring scanner, run as a script)
\* extract_control_info: a control whose is_enabled() or is_visible() raises
\* is skipped.
RECURSIVE extract_control_info(_)
extract_control_info(descendants) ==
    IF descendants = <<>> THEN <<>>
    ELSE LET control == Head(descendants)
         IN  (IF control.is_enabled = "raise" \/ control.is_visible = "raise"
              THEN <<>>
              ELSE << [auto_id |-> control.auto_id, title |-> control.title,
                       control_type |-> control.control_type,
                       class_name |-> control.class_name,
                       is_enabled |-> (control.is_enabled = "yes"),
                       is_visible |-> (control.is_visible = "yes")] >>)
             \o extract_control_info(Tail(descendants))

\* The rule tables of find_likely_text_input_controls,
\* find_likely_send_button_controls, find_likely_new_conversation_controls.
text_input_patterns ==
    << Pattern("input.*text.*box", <<"input", "text", "box">>, FALSE, FALSE),
       Pattern("text.*input", <<"text", "input">>, FALSE, FALSE),
       Pattern("message.*input", <<"message", "input">>, FALSE, FALSE),
       Pattern("chat.*input", <<"chat", "input">>, FALSE, FALSE),
       Pattern("compose.*input", <<"compose", "input">>, FALSE, FALSE),
       Pattern("^text.*box$", <<"text", "box">>, TRUE, TRUE),
       Pattern("^input.*$", <<"input">>, TRUE, FALSE) >>

send_button_patterns ==
    << Pattern("send.*button", <<"send", "button">>, FALSE, FALSE),
       Pattern("submit.*button", <<"submit", "button">>, FALSE, FALSE),
       Pattern("compose.*button", <<"compose", "button">>, FALSE, FALSE),
       Pattern("mic.*button", <<"mic", "button">>, FALSE, FALSE),
       Pattern("chat.*send", <<"chat", "send">>, FALSE, FALSE),
       Pattern("^send$", <<"send">>, TRUE, TRUE),
       Pattern("^submit$", <<"submit">>, TRUE, TRUE) >>

new_conversation_patterns ==
    << Pattern("new.*conversation", <<"new", "conversation">>, FALSE, FALSE),
       Pattern("ny.*samtale", <<"ny", "samtale">>, FALSE, FALSE),
       Pattern("new.*chat", <<"new", "chat">>, FALSE, FALSE),
       Pattern("start.*new", <<"start", "new">>, FALSE, FALSE),
       Pattern("conversation.*new", <<"conversation", "new">>, FALSE, FALSE) >>

\* One rule of a classifier: its weight and reason when it triggers.
Rule(triggered, weight, reason) ==
    IF triggered THEN [score |-> weight, reasons |-> <<reason>>]
                 ELSE [score |-> 0, reasons |-> <<>>]

RECURSIVE Sum(_)
Sum(rules) ==
    IF rules = <<>> THEN [score |-> 0, reasons |-> <<>>]
    ELSE LET rest == Sum(Tail(rules))
         IN  [score |-> Head(rules).score + rest.score,
              reasons |-> Head(rules).reasons \o rest.reasons]

auto_id_rule(patterns, auto_id) ==
    LET n == first_match(patterns, auto_id)
    IN  Rule(n # 0, 10,
             "auto_id matches pattern: "
                \o (IF n # 0 THEN patterns[n].src ELSE ""))

\* `score = 0; reasons = []` at the top of each pass of the loop.
initial_score_carried(previous) == previous

initial_score(previous) == 0

\* The body of the loop of each find_likely_*_controls for one control that
\* is enabled and visible: keep says whether a candidate is appended.
classify(role, control, score) ==
    LET auto_id == lower(control.auto_id)
        title == lower(control.title)
        rules ==
          CASE role = "text_input" ->
                 << auto_id_rule(text_input_patterns, auto_id),
                    Rule(control.control_type
                            \in {"Edit", "Text", "Document", "Custom"}, 5,
                         "control_type: " \o control.control_type),
                    Rule(contains_any(title,
                            <<"input", "text", "message", "chat">>), 3,
                         "title contains text input keywords"),
                    Rule(contains(auto_id, "inputtextbox"), 15,
                         "Known working auto_id pattern") >>
            [] role = "send_button" ->
                 << auto_id_rule(send_button_patterns, auto_id),
                    Rule(control.control_type \in {"Button", "Custom"}, 5,
                         "control_type: " \o control.control_type),
                    Rule(contains_any(title,
                            <<"send", "submit", "snakk", "talk", "mic",
                              "microphone">>), 8,
                         "title contains send keywords: " \o title),
                    Rule(contains(auto_id, "oldcomposermicbutton"), 15,
                         "Known working auto_id pattern"),
                    Rule(contains(title, "snakk med copilot"), 12,
                         "Known working title pattern") >>
            [] OTHER ->
                 << auto_id_rule(new_conversation_patterns, auto_id),
                    Rule(control.control_type
                            \in {"Button", "Custom", "MenuItem"}, 5,
                         "control_type: " \o control.control_type),
                    Rule(contains_any(title,
                            <<"ny samtale", "new conversation", "new chat">>),
                         12,
                         "title matches conversation keywords: " \o title) >>
        sum == Sum(rules)
        clickable == control.control_type \in {"Button", "Custom", "MenuItem"}
    IN  [control |-> control,
         score |-> score + sum.score,
         reasons |-> sum.reasons,
         keep |-> /\ score + sum.score > 0
                  /\ role = "new_conversation" => clickable]

\* The loop `for control in controls` of a find_likely_*_controls.
RECURSIVE candidates_of(_, _, _)
candidates_of(role, controls, previous) ==
    IF controls = <<>> THEN <<>>
    ELSE IF ~is_candidate(Head(controls))
    THEN candidates_of(role, Tail(controls), previous)
    ELSE LET c == classify(role, Head(controls), initial_score(previous))
         IN  (IF c.keep
              THEN <<[control |-> c.control, score |-> c.score,
                      reasons |-> c.reasons]>>
              ELSE <<>>)
             \o candidates_of(role, Tail(controls), c.score)

\* candidates.sort(key=lambda x: x['score'], reverse=True): a stable sort,
\* equal scores stay in the order they had.
RECURSIVE insert(_, _)
insert(candidate, sorted) ==
    IF sorted = <<>> THEN <<candidate>>
    ELSE IF Head(sorted).score >= candidate.score
    THEN <<Head(sorted)>> \o insert(candidate, Tail(sorted))
    ELSE <<candidate>> \o sorted

\* A list left in the order of the enumeration.
sort_keeps_order(candidates) == candidates

RECURSIVE sort(_)
sort(candidates) ==
    IF candidates = <<>> THEN <<>>
    ELSE insert(candidates[Len(candidates)],
                sort(SubSeq(candidates, 1, Len(candidates) - 1)))

find_likely_text_input_controls(controls) ==
    sort(candidates_of("text_input", controls, 0))

find_likely_send_button_controls(controls) ==
    sort(candidates_of("send_button", controls, 0))

find_likely_new_conversation_controls(controls) ==
    sort(candidates_of("new_conversation", controls, 0))

\* main lines 334-365: the first ten candidates of a list, as dictionaries.
structured(candidates) ==
    [k \in 1..(IF Len(candidates) < 10 THEN Len(candidates) ELSE 10) |->
        [auto_id |-> candidates[k].control.auto_id,
         title |-> candidates[k].control.title,
         control_type |-> candidates[k].control.control_type,
         score |-> candidates[k].score,
         reasons |-> candidates[k].reasons]]

\* What parse_debug_output returns: a dictionary, or None.
Parsed(data) == [none |-> FALSE, data |-> data]

None == [none |-> TRUE, data |-> <<>>]

\* The state of one scan. descendants holds the nodes the backend's
\* enumeration yields, and enumeration says how it ends: "complete", or
\* "raise" when it fails after the last of them.
ScanIdle ==
    [pc |-> "idle", descendants |-> <<>>, result |-> <<>>, controls |-> <<>>,
     text_candidates |-> <<>>, send_candidates |-> <<>>,
     new_conv_candidates |-> <<>>, structured_data |-> <<>>,
     output |-> "", parsed |-> None, enumeration |-> "complete"]

ScanUnchanged ==
    UNCHANGED <<WINDOWS_AVAILABLE, config, window, pc, i, success_count,
                results, loc, _should_stop, hist, validation, conf, stream,
                gui>>

\* debug.py inspect_ui_elements, from window.descendants() to the result;
\* the walk is inside the try of lines 217-281, whose handlers return None.
InspectUiElements ==
    /\ scan.pc = "start"
    /\ scan' = IF scan.enumeration = "raise"
               THEN [scan EXCEPT !.pc = "failed"]
               ELSE [scan EXCEPT !.pc = "inspected",
                                 !.result = inspect_ui_elements(scan.descendants)]
    /\ ScanUnchanged

\* copilot_ui_debug.py main, line 281: extract_control_info keeps the
\* controls appended before the enumeration failed (lines 55-56).
ExtractControlInfo ==
    /\ scan.pc = "start"
    /\ scan' = [scan EXCEPT !.pc = "extracted",
                            !.controls = extract_control_info(scan.descendants)]
    /\ ScanUnchanged

\* Line 285.
FindLikelyTextInputControls ==
    /\ scan.pc = "extracted"
    /\ scan' = [scan EXCEPT !.pc = "text",
                  !.text_candidates =
                      find_likely_text_input_controls(scan.controls)]
    /\ ScanUnchanged

\* Line 300.
FindLikelySendButtonControls ==
    /\ scan.pc = "text"
    /\ scan' = [scan EXCEPT !.pc = "send",
                  !.send_candidates =
                      find_likely_send_button_controls(scan.controls)]
    /\ ScanUnchanged

\* Line 315.
FindLikelyNewConversationControls ==
    /\ scan.pc = "send"
    /\ scan' = [scan EXCEPT !.pc = "new_conv",
                  !.new_conv_candidates =
                      find_likely_new_conversation_controls(scan.controls)]
    /\ ScanUnchanged

\* Lines 334-369: the structured data printed between the JSON markers.
StructuredData ==
    /\ scan.pc = "new_conv"
    /\ scan' = [scan EXCEPT !.pc = "printed",
                  !.structured_data =
                      [text_input_candidates |->
                           structured(scan.text_candidates),
                       send_button_candidates |->
                           structured(scan.send_candidates),
                       new_conversation_candidates |->
                           structured(scan.new_conv_candidates)]]
    /\ ScanUnchanged

\* -------------------------------------------------- helper-process boundary
\* The helper script prints a listing and then the structured data as JSON
\* between two marker lines; the engine's side cuts the text between the
\* markers out of the captured output and parses it.
char(s, p) == IF p \in 1..Len(s) THEN SubSeq(s, p, p) ELSE ""

\* str.find: the index (from 0) of the first occurrence, -1 when absent.
find(s, sub) ==
    IF contains(s, sub)
    THEN (CHOOSE p \in 1..(Len(s) - Len(sub) + 1) :
            /\ SubSeq(s, p, p + Len(sub) - 1) = sub
            /\ \A q \in 1..(p - 1) : SubSeq(s, q, q + Len(sub) - 1) # sub) - 1
    ELSE 0 - 1

\* s[a:b] for indices that are not negative.
slice(s, a, b) ==
    IF a >= b \/ a >= Len(s) THEN ""
    ELSE SubSeq(s, a + 1, IF b < Len(s) THEN b ELSE Len(s))

Whitespace == {" ", "\n", "\t", "\r"}

\* The first position from p on that holds no white space.
skip_ws(s, p) ==
    CHOOSE q \in p..(Len(s) + 1) :
        /\ char(s, q) \notin Whitespace
        /\ \A r \in p..(q - 1) : char(s, r) \in Whitespace

\* str.strip()
strip(s) ==
    IF \A p \in 1..Len(s) : char(s, p) \in Whitespace THEN ""
    ELSE SubSeq(s, skip_ws(s, 1),
                CHOOSE q \in 1..Len(s) :
                    /\ char(s, q) \notin Whitespace
                    /\ \A r \in (q + 1)..Len(s) : char(s, r) \in Whitespace)

Digits == "0123456789"

digit(n) == SubSeq(Digits, n + 1, n + 1)

IsDigit(c) == \E n \in 0..9 : digit(n) = c

\* str(n) for a natural number.
RECURSIVE str(_)
str(n) == IF n < 10 THEN digit(n) ELSE str(n \div 10) \o digit(n % 10)

\* int(s) for a string of digits.
RECURSIVE int(_)
int(s) ==
    IF s = "" THEN 0
    ELSE 10 * int(SubSeq(s, 1, Len(s) - 1))
         + (CHOOSE n \in 0..9 : digit(n) = char(s, Len(s)))

RECURSIVE join(_, _)
join(strings, sep) ==
    IF strings = <<>> THEN ""
    ELSE IF Len(strings) = 1 THEN strings[1]
    ELSE strings[1] \o sep \o join(Tail(strings), sep)

\* json.dumps(..., indent=2, ensure_ascii=False) for the structured data: a
\* dictionary of three lists of dictionaries of strings, an integer and a
\* list of strings.
escape_char(c) ==
    IF c = "\"" THEN "\\\""
    ELSE IF c = "\\" THEN "\\\\"
    ELSE IF c = "\n" THEN "\\n"
    ELSE IF c = "\t" THEN "\\t"
    ELSE IF c = "\r" THEN "\\r"
    ELSE c

RECURSIVE escape(_)
escape(s) ==
    IF s = "" THEN ""
    ELSE escape_char(char(s, 1)) \o escape(SubSeq(s, 2, Len(s)))

dumps_str(s) == "\"" \o escape(s) \o "\""

dumps_int(n) == IF n < 0 THEN "-" \o str(0 - n) ELSE str(n)

RECURSIVE spaces(_)
spaces(n) == IF n = 0 THEN "" ELSE " " \o spaces(n - 1)

\* The line break and indentation json.dumps writes at a nesting level.
newline_indent(indent, level) == "\n" \o spaces(indent * level)

\* A list whose items are already serialised.
dumps_list(items, indent, level) ==
    IF items = <<>> THEN "[]"
    ELSE "[" \o newline_indent(indent, level + 1)
             \o join(items, "," \o newline_indent(indent, level + 1))
             \o newline_indent(indent, level) \o "]"

\* A dictionary whose keys and values are already serialised.
dumps_dict(members, indent, level) ==
    "{" \o newline_indent(indent, level + 1)
        \o join([k \in 1..Len(members) |->
                    dumps_str(members[k][1]) \o ": " \o members[k][2]],
                "," \o newline_indent(indent, level + 1))
        \o newline_indent(indent, level) \o "}"

\* A list of strings.
dumps_strings(strings, indent, level) ==
    dumps_list([k \in 1..Len(strings) |-> dumps_str(strings[k])],
               indent, level)

dumps_candidate(c, level) ==
    dumps_dict(<< <<"auto_id", dumps_str(c.auto_id)>>,
                  <<"title", dumps_str(c.title)>>,
                  <<"control_type", dumps_str(c.control_type)>>,
                  <<"score", dumps_int(c.score)>>,
                  <<"reasons", dumps_strings(c.reasons, 2, level + 1)>> >>,
               2, level)

dumps_candidates(candidates, level) ==
    dumps_list([k \in 1..Len(candidates) |->
                   dumps_candidate(candidates[k], level + 1)], 2, level)

dumps(structured_data) ==
    dumps_dict(<< <<"text_input_candidates",
                    dumps_candidates(structured_data.text_input_candidates, 1)>>,
                  <<"send_button_candidates",
                    dumps_candidates(structured_data.send_button_candidates, 1)>>,
                  <<"new_conversation_candidates",
                    dumps_candidates(
                        structured_data.new_conversation_candidates, 1)>> >>,
               2, 0)

\* json.loads: a value and the position after it, or a decode error.
JsonValue(value, next) == [ok |-> TRUE, value |-> value, next |-> next]

JSONDecodeError == [ok |-> FALSE, value |-> "", next |-> 0]

\* The number of backslashes that directly precede position q, looking back
\* no further than position p.
backslashes(s, p, q) ==
    CHOOSE k \in 0..(q - p - 1) :
        /\ \A j \in 1..k : char(s, q - j) = "\\"
        /\ k = q - p - 1 \/ char(s, q - k - 1) # "\\"

closes_string(s, p, q) ==
    char(s, q) = "\"" /\ backslashes(s, p, q) % 2 = 0

unescape_char(c) ==
    IF c = "n" THEN "\n" ELSE IF c = "t" THEN "\t" ELSE IF c = "r" THEN "\r"
    ELSE c

RECURSIVE unescape(_)
unescape(s) ==
    IF s = "" THEN ""
    ELSE IF char(s, 1) = "\\"
    THEN unescape_char(char(s, 2)) \o unescape(SubSeq(s, 3, Len(s)))
    ELSE char(s, 1) \o unescape(SubSeq(s, 2, Len(s)))

\* A string that opens at position p.
parse_string(s, p) ==
    IF \E q \in (p + 1)..Len(s) : closes_string(s, p, q)
    THEN LET q == CHOOSE r \in (p + 1)..Len(s) :
                    /\ closes_string(s, p, r)
                    /\ \A t \in (p + 1)..(r - 1) : ~closes_string(s, p, t)
         IN  JsonValue(unescape(SubSeq(s, p + 1, q - 1)), q + 1)
    ELSE JSONDecodeError

\* A float, kept as a whole number of tenths (the configuration's times
\* have one decimal).
Float(tenths) == [float |-> tenths]

\* repr of a float with one decimal, as json.dump writes it.
dumps_float(tenths) ==
    IF tenths < 0 THEN "-" \o str((0 - tenths) \div 10) \o "."
                           \o digit((0 - tenths) % 10)
    ELSE str(tenths \div 10) \o "." \o digit(tenths % 10)

\* A number that starts at position p: an integer, or a float when a
\* fraction of one digit follows.
parse_number(s, p) ==
    LET from == IF char(s, p) = "-" THEN p + 1 ELSE p
        to == CHOOSE q \in from..(Len(s) + 1) :
                 /\ ~IsDigit(char(s, q))
                 /\ \A r \in from..(q - 1) : IsDigit(char(s, r))
        whole == int(SubSeq(s, from, to - 1))
        sign == IF from = p THEN 1 ELSE 0 - 1
    IN  IF to = from THEN JSONDecodeError
        ELSE IF char(s, to) = "."
        THEN IF IsDigit(char(s, to + 1)) /\ ~IsDigit(char(s, to + 2))
             THEN JsonValue(Float(sign * (10 * whole
                                          + int(char(s, to + 1)))), to + 2)
             ELSE JSONDecodeError
        ELSE JsonValue(sign * whole, to)

\* The dictionary of a list of <<key, value>> members (a repeated key keeps
\* its last value).
dict(members) ==
    [k \in {members[n][1] : n \in 1..Len(members)} |->
        members[CHOOSE n \in 1..Len(members) :
                   /\ members[n][1] = k
                   /\ \A m \in (n + 1)..Len(members) : members[m][1] # k][2]]

RECURSIVE parse_value(_, _)
RECURSIVE parse_elements(_, _, _)
RECURSIVE parse_members(_, _, _)

\* The items of a list from position p on, up to the closing bracket.
parse_elements(s, p, items) ==
    LET v == parse_value(s, p)
        q == skip_ws(s, v.next)
    IN  IF ~v.ok THEN JSONDecodeError
        ELSE IF char(s, q) = ","
        THEN parse_elements(s, skip_ws(s, q + 1), Append(items, v.value))
        ELSE IF char(s, q) = "]"
        THEN JsonValue(Append(items, v.value), q + 1)
        ELSE JSONDecodeError

\* The members of a dictionary from position p on, up to the closing brace.
parse_members(s, p, members) ==
    LET k == parse_string(s, p)
        colon == skip_ws(s, k.next)
        v == parse_value(s, skip_ws(s, colon + 1))
        q == skip_ws(s, v.next)
    IN  IF char(s, p) # "\"" \/ ~k.ok \/ char(s, colon) # ":" \/ ~v.ok
        THEN JSONDecodeError
        ELSE IF char(s, q) = ","
        THEN parse_members(s, skip_ws(s, q + 1),
                           Append(members, <<k.value, v.value>>))
        ELSE IF char(s, q) = "}"
        THEN JsonValue(dict(Append(members, <<k.value, v.value>>)), q + 1)
        ELSE JSONDecodeError

parse_value(s, p) ==
    LET c == char(s, p)
    IN  IF c = "{"
        THEN IF char(s, skip_ws(s, p + 1)) = "}"
             THEN JsonValue(<<>>, skip_ws(s, p + 1) + 1)
             ELSE parse_members(s, skip_ws(s, p + 1), <<>>)
        ELSE IF c = "["
        THEN IF char(s, skip_ws(s, p + 1)) = "]"
             THEN JsonValue(<<>>, skip_ws(s, p + 1) + 1)
             ELSE parse_elements(s, skip_ws(s, p + 1), <<>>)
        ELSE IF c = "\"" THEN parse_string(s, p)
        ELSE IF c = "-" \/ IsDigit(c) THEN parse_number(s, p)
        ELSE JSONDecodeError

\* json.loads(s): one value and nothing but white space after it.
loads(s) ==
    LET v == parse_value(s, skip_ws(s, 1))
    IN  IF v.ok /\ skip_ws(s, v.next) > Len(s) THEN v ELSE JSONDecodeError

start_marker == "JSON_DATA_START"

end_marker == "JSON_DATA_END"

\* automation.py parse_debug_output (the legacy script's copy is the same).
parse_debug_output(debug_output) ==
    LET start_idx == find(debug_output, start_marker)
        end_idx == find(debug_output, end_marker)
        json_data == strip(slice(debug_output,
                                 start_idx + Len(start_marker), end_idx))
    IN  IF start_idx = 0 - 1 \/ end_idx = 0 - 1 THEN None
        ELSE IF loads(json_data).ok THEN Parsed(loads(json_data).value)
        ELSE None

\* copilot_ui_debug.py main, lines 286-327: the listing of the first five
\* candidates of a list.
listing(candidates) ==
    IF candidates = <<>> THEN "  Ingen kandidater funnet\n"
    ELSE join([k \in 1..(IF Len(candidates) < 5 THEN Len(candidates) ELSE 5) |->
                  "  " \o str(k) \o ". Score: "
                       \o dumps_int(candidates[k].score) \o "\n"
                  \o "     auto_id: '" \o candidates[k].control.auto_id \o "'\n"
                  \o "     title: '" \o candidates[k].control.title \o "'\n"
                  \o "     control_type: '"
                  \o candidates[k].control.control_type \o "'\n"
                  \o "     reasons: " \o join(candidates[k].reasons, ", ")
                  \o "\n\n"], "")

\* Everything main prints from line 278 to line 372.
stdout(s) ==
    "DYNAMISK UI-ELEMENT ANALYSE\n"
    \o "TEKSTINPUT KANDIDATER (prioritert):\n" \o listing(s.text_candidates)
    \o "SENDEKNAPP KANDIDATER (prioritert):\n" \o listing(s.send_candidates)
    \o "NY SAMTALE KNAPP KANDIDATER (prioritert):\n"
    \o listing(s.new_conv_candidates)
    \o "STRUKTURERT DATA FOR SCRIPT-PARSING:\n"
    \o start_marker \o "\n"
    \o dumps(s.structured_data) \o "\n"
    \o end_marker \o "\n"
    \o "\nDebug-utskrift ferdig\n"

\* Lines 367-372: the helper prints and exits.
PrintJson ==
    /\ scan.pc = "printed"
    /\ scan' = [scan EXCEPT !.pc = "exited", !.output = stdout(scan)]
    /\ ScanUnchanged

\* The legacy script's dump_control_tree_via_script, line 151.
ParseDebugOutput ==
    /\ scan.pc = "exited"
    /\ scan' = [scan EXCEPT !.pc = "parsed",
                            !.parsed = parse_debug_output(scan.output)]
    /\ ScanUnchanged

\* ------------------------------------------------------- configuration file
\* config.py: the Config dataclass, its JSON file, and Config.validate. An
\* object is the function from its attribute names to their values: the
\* declared fields that Config.validate reads, and any attribute assigned
\* to the instance later. wait_time_seconds is held in tenths of a second.
DeclaredFields ==
    {"number_of_messages", "wait_time_seconds", "window_title_regex",
     "text_input_patterns", "send_button_patterns", "sample_messages"}

DefaultNumberOfMessages == 50

DefaultWaitTime == 5

\* generator.py generate_messages: count messages (their text is drawn at
\* random from the phrase tables; nothing below depends on it).
generate_messages(n) ==
    IF n <= 0 THEN <<>>
    ELSE [k \in 1..n |-> IF k % 2 = 1 THEN "Hei" ELSE "Hello"]

\* Config(**kwargs): the dataclass __init__ and __post_init__.
Config(kwargs) ==
    LET given(f, default) == IF f \in DOMAIN kwargs THEN kwargs[f] ELSE default
        number_of_messages ==
            given("number_of_messages", DefaultNumberOfMessages)
    IN  [number_of_messages |-> number_of_messages,
         wait_time_seconds |-> given("wait_time_seconds", DefaultWaitTime),
         window_title_regex |-> given("window_title_regex", "^Copilot.*"),
         text_input_patterns |->
             given("text_input_patterns",
                   <<"InputTextBox", "CIB-Compose-Box", "TextBox",
                     "MessageInput", "ChatInput">>),
         send_button_patterns |->
             given("send_button_patterns",
                   <<"Snakk med Copilot", "OldComposerMicButton",
                     "SendButton", "MicButton">>),
         sample_messages |->
             given("sample_messages", generate_messages(number_of_messages))]

\* `config.name = value`
setattr(object, name, value) ==
    [a \in DOMAIN object \cup {name} |->
        IF a = name THEN value ELSE object[a]]

\* to_dict: dataclasses.asdict, the declared fields only.
to_dict(object) == [f \in DeclaredFields |-> object[f]]

\* from_dict: keys that are not fields are dropped.
from_dict(data) ==
    Config([k \in DOMAIN data \cap DeclaredFields |-> data[k]])

\* json.dump(config_data, f, indent=4, ensure_ascii=False)
dump(config_data) ==
    dumps_dict(<< <<"number_of_messages",
                    dumps_int(config_data.number_of_messages)>>,
                  <<"wait_time_seconds",
                    dumps_float(config_data.wait_time_seconds)>>,
                  <<"window_title_regex",
                    dumps_str(config_data.window_title_regex)>>,
                  <<"text_input_patterns",
                    dumps_strings(config_data.text_input_patterns, 4, 1)>>,
                  <<"send_button_patterns",
                    dumps_strings(config_data.send_button_patterns, 4, 1)>>,
                  <<"sample_messages",
                    dumps_strings(config_data.sample_messages, 4, 1)>> >>,
               4, 0)

\* json.load(f): the parsed dictionary, its floats in tenths again.
load(text) ==
    LET data == loads(text).value
    IN  [k \in DOMAIN data |->
            IF k = "wait_time_seconds" THEN data[k].float ELSE data[k]]

\* The state of one Config object: the object, how many assignments were
\* made to it, what validate returned, the text of its file, the dictionary
\* handed to from_dict, and the object load_from_file or from_dict built.
ConfIdle ==
    [pc |-> "idle", object |-> <<>>, edits |-> 0, result |-> "unset",
     file |-> "", data |-> <<>>, loaded |-> <<>>]

\* The assignments the tests and the GUI make to an instance.
Assignments ==
    { <<"number_of_messages", 0>>, <<"number_of_messages", 0 - 1>>,
      <<"number_of_messages", 3>>,
      <<"wait_time_seconds", 0 - 10>>, <<"wait_time_seconds", 8>>,
      <<"window_title_regex", "">>,
      <<"language_choice", "english">>, <<"language_choice", "french">> }

\* Dictionaries handed to Config.from_dict.
Dictionaries ==
    { [number_of_messages |-> 2, wait_time_seconds |-> 10,
       language_choice |-> "norwegian", window_title_regex |-> "^Test.*"],
      [number_of_messages |-> 1],
      [window_title_regex |-> "^Test.*", debug |-> "yes"] }

ConfUnchanged ==
    UNCHANGED <<WINDOWS_AVAILABLE, config, window, pc, i, success_count,
                results, loc, _should_stop, hist, scan, validation, stream,
                gui>>

\* An assignment to an attribute of the instance.
SetAttr ==
    /\ conf.pc = "object"
    /\ conf.edits < MaxEdits
    /\ \E a \in Assignments :
          conf' = [conf EXCEPT !.object = setattr(conf.object, a[1], a[2]),
                               !.edits = conf.edits + 1]
    /\ ConfUnchanged

\* Config.validate(): True, or ValueError; it assigns nothing.
ConfigValidate ==
    /\ conf.pc = "object"
    /\ conf' = [conf EXCEPT !.pc = "validated",
                            !.result = IF validate(conf.object) THEN "True"
                                       ELSE "ValueError"]
    /\ ConfUnchanged

\* Config.save_to_file.
SaveToFile ==
    /\ conf.pc = "object"
    /\ conf' = [conf EXCEPT !.pc = "saved",
                            !.file = dump(to_dict(conf.object))]
    /\ ConfUnchanged

\* Config.load_from_file of the file just written.
LoadFromFile ==
    /\ conf.pc = "saved"
    /\ conf' = [conf EXCEPT !.pc = "loaded",
                            !.loaded = from_dict(load(conf.file))]
    /\ ConfUnchanged

\* Config.from_dict of a dictionary.
FromDict ==
    /\ conf.pc = "object"
    /\ conf.edits = 0
    /\ \E d \in Dictionaries :
          conf' = [conf EXCEPT !.pc = "from_dict", !.data = d,
                               !.loaded = from_dict(d)]
    /\ ConfUnchanged

\* ------------------------------------------------------------- log stream
\* worker.py ThrottledStreamToSignal: buffer is self.buffer, active is
\* self.timer.isActive(), emitted the texts text_written has carried. writes
\* is every text handed to write(), and last the operation that ran last.
StreamIdle ==
    [buffer |-> <<>>, active |-> FALSE, emitted |-> <<>>, writes |-> <<>>,
     last |-> "init"]

Texts == {"", " ", "\n", "a", "b\n"}

\* `if text and text.strip()`
is_buffered(text) == text # "" /\ strip(text) # ""

\* _emit_buffered_text that leaves the buffer as it is.
emit_keeps_buffer(s) ==
    IF s.buffer = <<>> THEN s
    ELSE [s EXCEPT !.emitted = Append(s.emitted, join(s.buffer, ""))]

\* _emit_buffered_text: one signal with the joined buffer, which is cleared.
_emit_buffered_text(s) ==
    IF s.buffer = <<>> THEN s
    ELSE [s EXCEPT !.emitted = Append(s.emitted, join(s.buffer, "")),
                   !.buffer = <<>>]

StreamUnchanged ==
    UNCHANGED <<WINDOWS_AVAILABLE, config, window, pc, i, success_count,
                results, loc, _should_stop, hist, scan, validation, conf,
                gui>>

\* write(text): a print of the code the worker thread runs (sys.stdout is
\* the stream, worker.py line 214); nothing is written once run has emitted
\* finished.
write ==
    /\ stream.last # "finished"
    /\ Len(stream.writes) < MaxWrites
    /\ \E text \in Texts :
          stream' = [stream EXCEPT
                        !.writes = Append(stream.writes, text),
                        !.buffer = IF is_buffered(text)
                                   THEN Append(stream.buffer, text)
                                   ELSE stream.buffer,
                        !.active = stream.active \/ is_buffered(text),
                        !.last = "write"]
    /\ StreamUnchanged

\* The single-shot timer expires: its timeout signal runs
\* _emit_buffered_text.
timeout ==
    /\ stream.active
    /\ stream' = [_emit_buffered_text(stream) EXCEPT !.active = FALSE,
                                                    !.last = "timeout"]
    /\ StreamUnchanged

\* flush(): timer.stop(), then _emit_buffered_text; the stream is followed
\* up to the end of run.
flush ==
    /\ stream.last \notin {"flush", "finished"}
    /\ stream' = [_emit_buffered_text([stream EXCEPT !.active = FALSE])
                     EXCEPT !.last = "flush"]
    /\ StreamUnchanged

\* A log handler that writes the record and leaves the flush to the timer.
handler_emit_unflushed(s, record) ==
    [s EXCEPT !.writes = Append(@, record),
              !.buffer = IF is_buffered(record) THEN Append(@, record) ELSE @,
              !.active = @ \/ is_buffered(record)]

\* The logging.StreamHandler of worker.py lines 207-210 handling one record:
\* stream.write(msg + "\n"), then stream.flush().
handler_emit(s, record) ==
    LET written == [s EXCEPT !.writes = Append(@, record),
                             !.buffer = IF is_buffered(record)
                                        THEN Append(@, record) ELSE @,
                             !.active = @ \/ is_buffered(record)]
    IN  _emit_buffered_text([written EXCEPT !.active = FALSE])

\* A formatted log record (worker.py line 208).
Records == {"INFO - a\n"}

\* logger.info(...) and the like in run and in run_stress_test_logic.
log ==
    /\ stream.last # "finished"
    /\ Len(stream.writes) < MaxWrites
    /\ \E record \in Records :
          stream' = [handler_emit(stream, record) EXCEPT !.last = "log"]
    /\ StreamUnchanged

\* worker.py run lines 176-185 on the stream: the flush, the last log line,
\* and then finished.emit().
finished ==
    /\ stream.last # "finished"
    /\ stream' = [handler_emit(
                      _emit_buffered_text([stream EXCEPT !.active = FALSE]),
                      "INFO - Worker thread finishing\n")
                     EXCEPT !.last = "finished"]
    /\ StreamUnchanged

\* ------------------------------------------------------------ specification
\* hist.new_session is the outcome of the new-conversation step and
\* hist.wait_timed_out says that the wait of iteration i raised; both are
\* kept until the loop head starts the next iteration.
HistInit ==
    [connects |-> 0, launches |-> 0, first_connect |-> "unset",
     launch |-> "unset", retry |-> "unset", window_checked |-> FALSE,
     window_node |-> ReadyNode,
     interacted |-> FALSE, started |-> {}, activated |-> {},
     new_session |-> "unset", wait_timed_out |-> FALSE, stop_in_loop |-> FALSE,
     exit_code |-> 0 - 1, handler |-> "none", thread_calls |-> <<>>,
     slept |-> {}, finished |-> 0]

Init ==
    /\ WINDOWS_AVAILABLE \in BOOLEAN
    /\ config \in Configs
    /\ window \in Windows
    /\ pc = "entry"
    /\ i = 0
    /\ success_count = 0
    /\ results = <<>>
    /\ loc = LocIdle
    /\ _should_stop = FALSE
    /\ hist = HistInit
    /\ scan = ScanIdle
    /\ validation = ValidationIdle
    /\ conf = ConfIdle
    /\ stream = StreamIdle
    /\ gui = GuiIdle

Next == Orchestrator \/ Locator

Spec == Init /\ [][Next]_vars

\* A test run from the GUI: start_test validates the configuration (gui.py
\* line 310) and starts the thread whose started signal calls worker.run;
\* the finished signal, the timeout timer or the closing of the window ends
\* it.
WorkerInit ==
    /\ WINDOWS_AVAILABLE \in BOOLEAN
    /\ config \in Configs
    /\ window \in Windows
    /\ pc = "entry"
    /\ i = 0
    /\ success_count = 0
    /\ results = <<>>
    /\ loc = LocIdle
    /\ _should_stop = FALSE
    /\ hist = HistInit
    /\ scan = ScanIdle
    /\ validation = ValidationIdle
    /\ conf = ConfIdle
    /\ stream = StreamIdle
    /\ gui = GuiIdle

WorkerNext ==
    \/ clicked
    \/ run
    \/ run_finally
    \/ worker_finished
    \/ on_test_timeout
    \/ closeEvent
    \/ wait
    \/ terminate
    \/ Engine
    \/ Locator

WorkerSpec == WorkerInit /\ [][WorkerNext]_vars

\* One test in a window that stays open (closing it ends the application).
LiveNext ==
    \/ clicked
    \/ run
    \/ run_finally
    \/ worker_finished
    \/ on_test_timeout
    \/ wait
    \/ terminate
    \/ Engine
    \/ Locator

\* The GUI event loop is processed fairly: a queued finished signal is
\* delivered, the single-shot timeout timer (at most 300000 ms, gui.py lines
\* 323-329) fires unless it is stopped, and thread.wait(5000) and
\* thread.terminate() return.  Nothing is assumed of the worker thread: run,
\* the engine and the locator may stop anywhere for ever.
LiveFairness ==
    /\ WF_vars(worker_finished)
    /\ WF_vars(on_test_timeout)
    /\ WF_vars(wait)
    /\ WF_vars(terminate)

\* The window with a configuration start_test accepts (a rejected one starts
\* no thread), the pattern lists of the second profile, and a live target
\* window, whose calls can return, fail and raise in every way.
LiveInit ==
    /\ WorkerInit
    /\ validate(config)
    /\ config.new_conversation_patterns # <<>>
    /\ window.kind = "live"

LiveSpec == LiveInit /\ [][LiveNext]_vars /\ LiveFairness

\* The command-line driver: main, the run, and the exit of the process.
CliNext == main \/ Engine \/ Locator \/ sys_exit

CliSpec == Init /\ [][CliNext]_vars

\* A scan of a window with up to MaxControls descendants, by either scanner.
\* The engine is not running.
EngineIdle ==
    /\ WINDOWS_AVAILABLE = TRUE
    /\ config = CHOOSE c \in Configs : validate(c)
    /\ window = [kind |-> "live", exposes |-> {}]
    /\ pc = "entry"
    /\ i = 0
    /\ success_count = 0
    /\ results = <<>>
    /\ loc = LocIdle
    /\ _should_stop = FALSE
    /\ hist = HistInit

ScanInit ==
    /\ EngineIdle
    /\ validation = ValidationIdle
    /\ conf = ConfIdle
    /\ stream = StreamIdle
    /\ gui = GuiIdle
    /\ \E d \in Descendants, e \in {"complete", "raise"} :
          scan = [ScanIdle EXCEPT !.pc = "start", !.descendants = d,
                                  !.enumeration = e]

ScanNext ==
    \/ InspectUiElements
    \/ ExtractControlInfo
    \/ FindLikelyTextInputControls
    \/ FindLikelySendButtonControls
    \/ FindLikelyNewConversationControls
    \/ StructuredData

ScanSpec == ScanInit /\ [][ScanNext]_vars

\* A run of the helper script on a window with up to MaxControls
\* descendants, and the parse of what it printed. Window content is free
\* text: a title can hold quotes, or the words the helper uses as markers.
MarkedNodes ==
    { Node("", "JSON_DATA_END", "Button", "yes", "yes"),
      Node("JSON_DATA_START", "", "Edit", "yes", "yes"),
      Node("", "Si \"hei\"", "Button", "yes", "yes") }

HelperNodes ==
    { Node("InputTextBox", "", "Edit", "yes", "yes"),
      Node("OldComposerMicButton", "Snakk med Copilot", "Button", "yes", "yes"),
      Node("HomeButton", "Ny samtale", "Button", "yes", "yes") }
    \cup MarkedNodes

HelperInit ==
    /\ EngineIdle
    /\ validation = ValidationIdle
    /\ conf = ConfIdle
    /\ stream = StreamIdle
    /\ gui = GuiIdle
    /\ \E d \in UNION {[1..n -> HelperNodes] : n \in 0..MaxControls} :
          scan = [ScanIdle EXCEPT !.pc = "start", !.descendants = d]

HelperNext ==
    \/ ExtractControlInfo
    \/ FindLikelyTextInputControls
    \/ FindLikelySendButtonControls
    \/ FindLikelyNewConversationControls
    \/ StructuredData
    \/ PrintJson
    \/ ParseDebugOutput

HelperSpec == HelperInit /\ [][HelperNext]_vars

\* The life of one Config object: constructed with the defaults, assigned
\* to, then validated, or saved and loaded again.
ConfigInit ==
    /\ EngineIdle
    /\ scan = ScanIdle
    /\ validation = ValidationIdle
    /\ conf = [ConfIdle EXCEPT !.pc = "object", !.object = Config(<<>>)]
    /\ stream = StreamIdle
    /\ gui = GuiIdle

ConfigNext ==
    \/ SetAttr
    \/ ConfigValidate
    \/ SaveToFile
    \/ LoadFromFile
    \/ FromDict

ConfigSpec == ConfigInit /\ [][ConfigNext]_vars

\* One ThrottledStreamToSignal: up to MaxWrites prints and log records, with
\* timer expiries and flushes in any order between them, and the end of run.
StreamInit ==
    /\ EngineIdle
    /\ scan = ScanIdle
    /\ validation = ValidationIdle
    /\ conf = ConfIdle
    /\ stream = StreamIdle
    /\ gui = GuiIdle

StreamNext == write \/ log \/ timeout \/ flush \/ finished

StreamSpec == StreamInit /\ [][StreamNext]_vars

\* One call of enhanced_element_validation, for every element and type.
ValidationInit ==
    /\ EngineIdle
    /\ scan = ScanIdle
    /\ conf = ConfIdle
    /\ stream = StreamIdle
    /\ gui = GuiIdle
    /\ \E e \in Elements, t \in ElementTypes :
          validation = [ValidationIdle EXCEPT !.pc = "start", !.element = e,
                                              !.element_type = t]

ValidationNext == Validate

ValidationSpec == ValidationInit /\ [][ValidationNext]_vars

\* ------------------------------------------------------------------ claims
\* The state machine of the orchestrator, read off the position.
State ==
    CASE pc \in {"entry", "rejected", "start"} -> "NotStarted"
      [] pc = "connect" -> "Connecting"
      [] pc \in {"launch", "reconnect"} -> "LaunchingIfMissing"
      [] pc = "validate" -> "Validating"
      [] pc \in {"new_locate", "new_click"} -> "StartingNewSession"
      [] pc = "done" -> IF results[Len(results)].error = NoError
                        THEN "Completed" ELSE "Failed"
      [] OTHER -> "SendingLoop"

Messages == 1..config.number_of_messages

\* C1 (loop resilience): a run that got past window validation starts every
\* one of the N iterations, whatever failed in the earlier ones, and returns
\* total = N, succeeded = the number of iterations whose send click
\* completed, and no error.
C1_LoopResilience ==
    (pc = "done" /\ hist.interacted) =>
        /\ hist.started = Messages
        /\ results = <<[success |-> Cardinality(hist.activated),
                        total |-> config.number_of_messages,
                        error |-> NoError]>>

\* A fault on message 2 of 3 only: messages 1 and 3 are sent, succeeded = 2.
C1_Witness ==
    /\ pc = "done"
    /\ config.number_of_messages = 3
    /\ hist.started = {1, 2, 3}
    /\ hist.activated = {1, 3}
    /\ results[1].success = 2

\* C2 (result invariant): 0 <= succeeded <= total in every state of a run
\* and in the result it returns, total being the configured number.
C2_SucceededWithinTotal ==
    /\ State = "SendingLoop" =>
          /\ 0 <= success_count
          /\ success_count <= config.number_of_messages
    /\ \A r \in 1..Len(results) :
          /\ results[r].total = config.number_of_messages
          /\ 0 <= results[r].success
          /\ results[r].success <= results[r].total


\* C3 (one pass, one result): every run terminates, in Completed or Failed,
\* with exactly one result; the states are entered only along Connecting,
\* LaunchingIfMissing, Validating, StartingNewSession, SendingLoop and then
\* Completed or Failed, none of them twice.  Termination is stated by a
\* variant: Progress is bounded and every step of the run increases it, and
\* a run that has not returned always has a next step.
StateOrder ==
    {<<"NotStarted", "Connecting">>, <<"NotStarted", "Failed">>,
     <<"Connecting", "LaunchingIfMissing">>, <<"Connecting", "Validating">>,
     <<"Connecting", "Failed">>,
     <<"LaunchingIfMissing", "Validating">>, <<"LaunchingIfMissing", "Failed">>,
     <<"Validating", "StartingNewSession">>, <<"Validating", "Failed">>,
     <<"StartingNewSession", "SendingLoop">>,
     <<"SendingLoop", "Completed">>}

PcRank ==
    CASE pc = "entry" -> 0
      [] pc = "start" -> 1
      [] pc = "connect" -> 2
      [] pc = "launch" -> 3
      [] pc = "reconnect" -> 4
      [] pc = "validate" -> 5
      [] pc = "new_locate" -> 6
      [] pc = "new_click" -> 7
      [] pc = "choose" -> 1
      [] pc = "text_locate" -> 2
      [] pc = "clear" -> 3
      [] pc = "type" -> 4
      [] pc = "send_locate" -> 5
      [] pc = "wait" -> 6
      [] pc = "click" -> 7
      [] pc = "count" -> 8
      [] pc = "sleep" -> 9
      [] pc = "loop" -> 10
      [] OTHER -> 11

LocRank ==
    CASE loc.pc = "idle" -> 0
      [] loc.pc = "known_auto_id" -> 2 * loc.k
      [] loc.pc = "known_title" -> 2 * loc.k + 1
      [] loc.pc = "discover" -> 2 * Len(PatternsFor(loc.element_type)) + 2
      [] loc.pc = "cand_auto_id" ->
            2 * Len(PatternsFor(loc.element_type)) + 3 * loc.c
      [] loc.pc = "cand_title" ->
            2 * Len(PatternsFor(loc.element_type)) + 3 * loc.c + 1
      [] loc.pc = "cand_control_type" ->
            2 * Len(PatternsFor(loc.element_type)) + 3 * loc.c + 2
      [] OTHER -> 2 * Len(PatternsFor(loc.element_type)) + 3 * MaxCandidates + 3

Progress ==
    IF pc \in {"done", "rejected"}
    THEN (MaxMessages + 1) * 10000
    ELSE i * 10000 + PcRank * 100
         + (IF pc \in {"new_locate", "text_locate", "send_locate"}
            THEN LocRank ELSE 0)

C3_OnePassOneResult ==
    /\ [][Progress' > Progress]_vars
    /\ [](Progress <= (MaxMessages + 1) * 10000)
    /\ [](pc \notin {"done", "rejected"} => ENABLED Next)
    /\ [][State' # State => <<State, State'>> \in StateOrder]_vars
    /\ [](Len(results) = IF pc = "done" THEN 1 ELSE 0)

\* A run that launched the application, went through every state and
\* completed with all messages sent.
C3_Witness ==
    /\ pc = "done"
    /\ hist.launches = 1
    /\ hist.connects = 2
    /\ config.number_of_messages = 3
    /\ results = <<[success |-> 3, total |-> 3, error |-> NoError]>>

\* C4 (phase ordering): in a locate call, once a known-pattern lookup has
\* given a node that passes readiness validation, the call returns that node
\* and dynamic discovery is not invoked.
C4_PhaseOrdering ==
    loc.known_ready =>
        /\ loc.discovery = "not_called"
        /\ loc.pc = "ret"
        /\ loc.element # NoElement
        /\ loc.exc = "none"
        /\ loc.method \in {"known_pattern_auto_id", "known_pattern_title"}

\* Pattern #2 resolves to a ready node: returned, discovery not called.
C4_Witness ==
    /\ loc.pc = "ret"
    /\ loc.known_ready
    /\ loc.k = 2
    /\ loc.element # NoElement
    /\ loc.discovery = "not_called"

\* C5 (fallback completeness): a locate call whose known patterns gave no
\* ready node and whose discovery gave no data or an empty candidate list
\* returns (None, None) and does not raise.
C5_FallbackCompleteness ==
    loc.discovery \in {"no_data", "empty"} =>
        /\ ~loc.known_ready
        /\ loc.pc = "ret"
        /\ loc.element = NoElement
        /\ loc.method = NoElement
        /\ loc.exc = "none"

\* Two known patterns exhausted, discovery returned an empty list.
C5_Witness ==
    /\ loc.pc = "ret"
    /\ loc.k = 2
    /\ loc.discovery = "empty"
    /\ loc.element = NoElement
    /\ loc.exc = "none"

\* The configuration of the concrete scenarios: 3 messages, no delay,
\* patterns ["A"] and ["B"], a non-empty message list.
ScenarioConfig ==
    /\ config.number_of_messages = 3
    /\ config.wait_time_seconds = 0
    /\ config.text_input_patterns = <<"A">>
    /\ config.send_button_patterns = <<"B">>
    /\ config.sample_messages # <<>>

\* C6 (concrete scenario): against a fake window exposing ready nodes "A"
\* and "B" the run returns succeeded = 3, total = 3 and no error.
C6_ScenarioAllSent ==
    (/\ pc = "done"
     /\ WINDOWS_AVAILABLE
     /\ ScenarioConfig
     /\ window = [kind |-> "fake", exposes |-> {"A", "B"}]) =>
        results = <<[success |-> 3, total |-> 3, error |-> NoError]>>

C6_Witness ==
    /\ pc = "done"
    /\ ScenarioConfig
    /\ window = [kind |-> "fake", exposes |-> {"A", "B"}]
    /\ hist.activated = {1, 2, 3}
    /\ results[1].success = 3

\* C7 (concrete scenario): against a fake window that exposes "A" but never
\* "B", with no discovery candidates, all three messages are attempted and
\* the run returns succeeded = 0, total = 3 and no error.
C7_ScenarioNoneSent ==
    (/\ pc = "done"
     /\ WINDOWS_AVAILABLE
     /\ ScenarioConfig
     /\ window = [kind |-> "fake", exposes |-> {"A"}]) =>
        /\ hist.started = {1, 2, 3}
        /\ results = <<[success |-> 0, total |-> 3, error |-> NoError]>>

C7_Witness ==
    /\ pc = "done"
    /\ ScenarioConfig
    /\ window = [kind |-> "fake", exposes |-> {"A"}]
    /\ hist.started = {1, 2, 3}
    /\ results[1].success = 0
    /\ results[1].error = NoError

\* What failed before the loop, read off the calls the run made.
ConnectFailed == hist.first_connect \notin {"unset", "none"}

LaunchFailed == hist.launch \notin {"unset", "none"}

RetryFailed == hist.retry \notin {"unset", "none"}

WindowRejected ==
    /\ hist.window_checked
    /\ \/ hist.window_node.exists # "yes"
       \/ hist.window_node.is_visible # "yes"
       \/ hist.window_node.is_enabled # "yes"
       \/ hist.window_node.set_focus # "ok"

\* C8 as stated: a result carries an error only when connecting, launching
\* or window validation failed before the first iteration; such a result
\* has succeeded = 0; a run whose loop has started returns no error.
C8_ErrorOnlyFromConnectLaunchValidate ==
    \A r \in 1..Len(results) :
        /\ results[r].error # NoError =>
              /\ results[r].success = 0
              /\ hist.started = {}
              /\ ConnectFailed \/ LaunchFailed \/ RetryFailed \/ WindowRejected
        /\ hist.started # {} => results[r].error = NoError

\* C8 (amended): a result carries an error only when the accessibility
\* backend is unavailable (WINDOWS_AVAILABLE false), or connecting, launching
\* or window validation failed, before the first iteration; such a result
\* has succeeded = 0; a run whose loop has started returns no error.
C8_ErrorOnlyBeforeLoop ==
    \A r \in 1..Len(results) :
        /\ results[r].error # NoError =>
              /\ results[r].success = 0
              /\ hist.started = {}
              /\ \/ ~WINDOWS_AVAILABLE
                 \/ ConnectFailed \/ LaunchFailed \/ RetryFailed
                 \/ WindowRejected
        /\ hist.started # {} => results[r].error = NoError

\* A Failed result after a successful launch, from window validation; and
\* the loop never started.
C8_Witness ==
    /\ pc = "done"
    /\ hist.launches = 1
    /\ WindowRejected
    /\ results[1].error # NoError
    /\ results[1].success = 0
    /\ hist.started = {}

\* C9 (launch if missing): when the first connect fails and
\* launch_if_not_found is true, the launch command is invoked exactly once
\* and, once it has returned, connect is retried exactly once; a failed
\* launch or retry ends the run Failed.  When launch_if_not_found is false
\* the launch command is never invoked and the run ends Failed.
C9_LaunchOnConnectFailure ==
    (pc = "done" /\ ConnectFailed) =>
        IF config.launch_if_not_found
        THEN /\ hist.launches = 1
             /\ hist.connects = IF LaunchFailed THEN 1 ELSE 2
             /\ (LaunchFailed \/ RetryFailed) => State = "Failed"
        ELSE /\ hist.launches = 0
             /\ hist.connects = 1
             /\ State = "Failed"

C11_NewSessionNeverAborts ==
    /\ [](hist.new_session # "unset" =>
            \/ pc = "loop" /\ i = 0 /\ results = <<>>
            \/ /\ pc = "done"
               /\ config.number_of_messages < 1
               /\ results[1].error = NoError)
    /\ [][(/\ hist.new_session # "unset"
           /\ pc = "loop"
           /\ config.number_of_messages >= 1) =>
              /\ pc' = "choose"
              /\ i' = 1
              /\ 1 \in hist'.started]_vars

\* The click on the located new-conversation control raised, and the run
\* is at the loop head with three messages to send.
C11_Witness ==
    /\ hist.new_session = "click_raised"
    /\ pc = "loop"
    /\ i = 0
    /\ config.number_of_messages = 3

\* C12 (bounded wait): an iteration whose send control did not become
\* enabled within the wait (the wait raised) issues no click and goes
\* straight back to the loop head; success_count is not incremented; and
\* the loop head then starts the next message, or returns the result after
\* the last one.
C12_BoundedWait ==
    /\ [](hist.wait_timed_out =>
            /\ pc \in {"loop", "done"}
            /\ i \notin hist.activated)
    /\ [][hist'.wait_timed_out => success_count' = success_count]_vars
    /\ [][(hist.wait_timed_out /\ pc = "loop") =>
            IF i < config.number_of_messages
            THEN pc' = "choose" /\ i' = i + 1
            ELSE /\ pc' = "done"
                 /\ results' = <<[success |-> success_count,
                                  total |-> config.number_of_messages,
                                  error |-> NoError]>>]_vars

\* The wait timed out on message 2 of 3, after message 1 was sent.
C12_Witness ==
    /\ hist.wait_timed_out
    /\ pc = "loop"
    /\ i = 2
    /\ config.number_of_messages = 3
    /\ hist.activated = {1}
    /\ success_count = 1

\* C13 (cooperative cancellation): once stop has been requested while the
\* message loop is running, the loop head starts no further iteration (the
\* iteration in progress is the last one), and the run ends with a Failed or
\* partial result.
C13_StopEndsLoop ==
    /\ [][(hist.stop_in_loop /\ pc = "loop") => pc' # "choose"]_vars
    /\ []((hist.stop_in_loop /\ pc = "done") =>
              \/ results[1].error # NoError
              \/ results[1].success < results[1].total)

\* A node the scanners may propose: visible and enabled at scan time.
Interactable(node) == node.is_visible = "yes" /\ node.is_enabled = "yes"

CandidateLists ==
    {"text_input_candidates", "send_button_candidates",
     "new_conversation_candidates"}

\* What copilot_ui_debug.py prints for a given enumeration.
StructuredDataOf(descendants) ==
    LET controls == extract_control_info(descendants)
    IN  [text_input_candidates |->
            structured(find_likely_text_input_controls(controls)),
         send_button_candidates |->
            structured(find_likely_send_button_controls(controls)),
         new_conversation_candidates |->
            structured(find_likely_new_conversation_controls(controls))]

\* C14 (non-interactable filtering): a node that is not visible or not
\* enabled at scan time, or whose visibility or enabled query fails, is in
\* none of the three candidate lists of either scanner: every candidate of
\* debug.py's lists is visible and enabled, every control copilot_ui_debug.py
\* scored is visible and enabled, and the result of a scan is the result of
\* scanning the interactable nodes alone.
C14_NonInteractableFiltered ==
    LET kept == SelectSeq(scan.descendants, Interactable)
    IN  /\ scan.pc = "inspected" =>
             /\ \A l \in CandidateLists :
                  /\ \A k \in 1..Len(scan.result[l]) :
                        /\ scan.result[l][k].is_visible
                        /\ scan.result[l][k].is_enabled
                  /\ scan.result[l] = inspect_ui_elements(kept)[l]
        /\ scan.pc = "printed" =>
             /\ \A c \in {scan.text_candidates[k] :
                             k \in 1..Len(scan.text_candidates)}
                      \cup {scan.send_candidates[k] :
                             k \in 1..Len(scan.send_candidates)}
                      \cup {scan.new_conv_candidates[k] :
                             k \in 1..Len(scan.new_conv_candidates)} :
                    c.control.is_visible /\ c.control.is_enabled
             /\ scan.structured_data = StructuredDataOf(kept)

\* The known-good text box whose visibility query fails is enumerated
\* before a plain visible edit control: only the latter is a candidate.
C14_Witness ==
    /\ scan.pc = "inspected"
    /\ scan.descendants = << Node("InputTextBox", "", "Edit", "raise", "yes"),
                             Node("", "", "Edit", "yes", "yes") >>
    /\ Len(scan.result.text_input_candidates) = 1
    /\ scan.result.text_input_candidates[1].auto_id = ""

\* The role a candidate list is for.
RoleOf(l) ==
    CASE l = "text_input_candidates" -> "text_input"
      [] l = "send_button_candidates" -> "send_button"
      [] OTHER -> "new_conversation"

\* The classifier score of a candidate of a list of debug.py, which carries
\* no score of its own.
ScoreOf(l, element_info) == classify(RoleOf(l), element_info, 0).score

\* The candidates of a list of copilot_ui_debug.py in scan order, before the
\* sort.
ScanOrder(l) ==
    structured(candidates_of(RoleOf(l), scan.controls, 0))

\* C15 (ranking invariant): every candidate list of a scan result that
\* reaches a locator is ordered by non-increasing score, and candidates of
\* equal score are in scan order: the lists of debug.inspect_ui_elements
\* (the scanner of automation.py), scored by the classifier, and the lists
\* copilot_ui_debug.py prints.
C15_RankedLists ==
    /\ scan.pc = "inspected" =>
          \A l \in CandidateLists :
             \A a, b \in 1..Len(scan.result[l]) :
                a < b => ScoreOf(l, scan.result[l][a])
                            >= ScoreOf(l, scan.result[l][b])
    /\ scan.pc = "printed" =>
          \A l \in CandidateLists :
             /\ \A a, b \in 1..Len(scan.structured_data[l]) :
                   a < b => scan.structured_data[l][a].score
                               >= scan.structured_data[l][b].score
             /\ \A n \in {ScanOrder(l)[k].score :
                            k \in 1..Len(ScanOrder(l))} :
                   SelectSeq(scan.structured_data[l], LAMBDA c : c.score = n)
                     = SelectSeq(ScanOrder(l), LAMBDA c : c.score = n)

\* The scored list of copilot_ui_debug.py for a candidate list.
ScoredList(l) ==
    CASE l = "text_input_candidates" -> scan.text_candidates
      [] l = "send_button_candidates" -> scan.send_candidates
      [] OTHER -> scan.new_conv_candidates

\* The boolean classifier of debug.py for a candidate list.
IsLikely(l, element_info) ==
    CASE l = "text_input_candidates" -> is_likely_text_input(element_info)
      [] l = "send_button_candidates" -> is_likely_send_button(element_info)
      [] OTHER -> is_likely_new_conversation_button(element_info)

Occurrences(x, seq) == Cardinality({k \in 1..Len(seq) : seq[k] = x})

\* C16 (classifier determinism): the match decision, score and reason list
\* of a node depend on its attributes and the role only.  In every scored
\* list each candidate carries the score and reasons a fresh classification
\* of its attributes gives, candidates of equal attributes carry equal
\* scores and reasons, and a control is listed exactly when the fresh
\* classification matches; in every list of debug.py the decision for a node
\* is the decision for its attributes, wherever the node is in the scan.
C16_ClassifierDeterminism ==
    /\ scan.pc = "printed" =>
          \A l \in CandidateLists :
             LET list == ScoredList(l)
                 fresh(control) == classify(RoleOf(l), control, 0)
             IN  /\ \A k \in 1..Len(list) :
                        /\ fresh(list[k].control).keep
                        /\ list[k].score = fresh(list[k].control).score
                        /\ list[k].reasons = fresh(list[k].control).reasons
                 /\ \A a, b \in 1..Len(list) :
                        list[a].control = list[b].control =>
                            /\ list[a].score = list[b].score
                            /\ list[a].reasons = list[b].reasons
                 /\ Len(list) =
                        Cardinality({k \in 1..Len(scan.controls) :
                                        /\ is_candidate(scan.controls[k])
                                        /\ fresh(scan.controls[k]).keep})
    /\ scan.pc = "inspected" =>
          \A l \in CandidateLists :
             \A k \in 1..Len(scan.descendants) :
                LET e == extract_element_info(scan.descendants[k])
                    all == [j \in 1..Len(scan.descendants) |->
                               extract_element_info(scan.descendants[j])]
                IN  Occurrences(e, scan.result[l]) =
                        IF e.is_visible /\ e.is_enabled /\ IsLikely(l, e)
                        THEN Occurrences(e, all) ELSE 0

\* The same send button enumerated twice: both candidates carry the score
\* 50 and the same five reasons.
C16_Witness ==
    /\ scan.pc = "printed"
    /\ scan.descendants =
          << Node("OldComposerMicButton", "Snakk med Copilot", "Button",
                  "yes", "yes"),
             Node("OldComposerMicButton", "Snakk med Copilot", "Button",
                  "yes", "yes") >>
    /\ Len(scan.send_candidates) = 2
    /\ \A k \in 1..2 :
          /\ scan.send_candidates[k].score = 50
          /\ scan.send_candidates[k].reasons =
                << "auto_id matches pattern: compose.*button",
                   "control_type: Button",
                   "title contains send keywords: snakk med copilot",
                   "Known working auto_id pattern",
                   "Known working title pattern" >>

\* What the element answered to a query of the validator.
Answer(element, query) ==
    CASE query = "exists" -> element.exists
      [] query = "is_visible" -> element.is_visible
      [] query = "is_enabled" -> element.is_enabled
      [] query = "set_focus" -> element.set_focus
      [] OTHER -> element.rectangle

IsPrefix(s, t) == Len(s) <= Len(t) /\ s = SubSeq(t, 1, Len(s))

\* C17 (validation order): the validator queries existence, then
\* visibility, then enabled, and stops at the first query that is answered
\* no or raises: every query before the last one made was answered yes; a
\* node that does not exist is asked nothing else, an invisible one is not
\* asked whether it is enabled; the role-specific probe (focus, rectangle)
\* is made only of a node that passed all three; a node is accepted only if
\* it passed all three; and a non-empty reason is returned in every case.
C17_ValidationOrder ==
    validation.pc = "validated" =>
        LET e == validation.element
            r == validation.result
            q == r.queried
        IN  /\ Len(q) >= 1
            /\ \/ IsPrefix(q, <<"exists", "is_visible", "is_enabled",
                                "set_focus">>)
               \/ IsPrefix(q, <<"exists", "is_visible", "is_enabled",
                                "rectangle">>)
            /\ \A k \in 1..(Len(q) - 1) : Answer(e, q[k]) = "yes"
            /\ e.exists # "yes" => q = <<"exists">>
            /\ (e.exists = "yes" /\ e.is_visible # "yes") =>
                  q = <<"exists", "is_visible">>
            /\ (\E k \in 1..Len(q) : q[k] \in {"set_focus", "rectangle"}) =>
                  /\ e.exists = "yes"
                  /\ e.is_visible = "yes"
                  /\ e.is_enabled = "yes"
            /\ r.ok => /\ e.exists = "yes"
                       /\ e.is_visible = "yes"
                       /\ e.is_enabled = "yes"
            /\ r.reason # ""

\* A node that does not exist and whose visibility query would raise: only
\* existence is asked, and the reason says so.
C17_Witness ==
    /\ validation.pc = "validated"
    /\ validation.element.exists = "no"
    /\ validation.element.is_visible = "raise"
    /\ validation.element_type = "send_button"
    /\ validation.result = Verdict(FALSE, "Element does not exist",
                                   <<"exists">>)

\* C18 (zero-area controls): a locate call for the send button or the
\* new-conversation control never returns a node whose rectangle has zero
\* width or zero height (a node the run would click), in the known-pattern
\* phase and in the dynamic-discovery phase alike.
C18_ZeroAreaNeverReturned ==
    (/\ loc.pc = "ret"
     /\ loc.element # NoElement
     /\ loc.element_type \in {"send_button", "new_conversation"}) =>
        loc.node.rectangle \notin {"zero_width", "zero_height"}

\* C19 (focus probe): for the text_input role a node that exists, is
\* visible and is enabled passes validation, also when set_focus raises.
C19_FocusProbeFailureDoesNotFail ==
    (/\ validation.pc = "validated"
     /\ validation.element_type = "text_input"
     /\ validation.element.exists = "yes"
     /\ validation.element.is_visible = "yes"
     /\ validation.element.is_enabled = "yes") =>
        validation.result.ok

\* C20 (discovery unavailability is not fatal): when the discovery helper
\* cannot be imported, raises, or returns nothing, the locate call that
\* called it returns no node and raises nothing, and the run goes on: to the
\* message loop after the new-conversation step, to the next message from
\* inside the loop; no result is returned at that point.
C20_DiscoveryUnavailableNotFatal ==
    /\ [](loc.helper \in Unavailable =>
            /\ loc.pc = "ret"
            /\ loc.element = NoElement
            /\ loc.exc = "none")
    /\ [][(loc.helper \in Unavailable /\ loc.pc = "ret") =>
            /\ pc \in {"new_locate", "text_locate", "send_locate"}
            /\ pc' = "loop"
            /\ results' = results
            /\ results = <<>>]_vars

\* The helper raised during the send-button locate of message 1.
C20_Witness ==
    /\ loc.helper = "Exception"
    /\ loc.pc = "ret"
    /\ loc.element = NoElement
    /\ pc = "send_locate"
    /\ i = 1

\* C21 (lossless transfer): whatever the scan found, parse_debug_output
\* applied to what the helper printed returns the structured data the
\* helper serialised: the same three lists, the same candidates in the same
\* order, with the same attributes.
C21_RoundTrip ==
    scan.pc = "parsed" =>
        /\ ~scan.parsed.none
        /\ scan.parsed.data = scan.structured_data

\* C22 (single-criterion lookups per candidate): in the dynamic-discovery
\* phase no candidate is left for the next one (or for the end of the list)
\* while one of its non-empty criteria has had no lookup: after a first
\* lookup that does not resolve, or resolves to a node that is not ready,
\* the title and the role lookups of the same candidate are still made.
C22_AllCriteriaTried == loc.untried = {}

\* C23 (partial scan results): when the backend's enumeration of the
\* descendants fails part-way, the scan does not fail as a whole: the debug
\* module's scan returns the candidates of the nodes visited before the
\* failure, and the helper script's extraction keeps the controls of those
\* nodes.
C23_PartialScanKept ==
    scan.enumeration = "raise" =>
        /\ scan.pc # "failed"
        /\ scan.pc = "inspected" =>
              \A l \in CandidateLists :
                  scan.result[l] =
                      SelectSeq([k \in 1..Len(scan.descendants) |->
                                    extract_element_info(scan.descendants[k])],
                                LAMBDA e : e.is_visible /\ e.is_enabled
                                           /\ IsLikely(l, e))
        /\ scan.pc = "extracted" =>
              Len(scan.controls)
                  = Cardinality({k \in 1..Len(scan.descendants) :
                        /\ scan.descendants[k].is_visible # "raise"
                        /\ scan.descendants[k].is_enabled # "raise"})

\* C24 (validated before use, unchanged during the run): on every entry
\* path the run is entered only with a configuration that Config.validate
\* accepts, and no step changes the configuration.
C24_ValidatedBeforeRun ==
    /\ [](pc \notin {"entry", "rejected"} => validate(config))
    /\ [][config' = config]_vars

\* C25 (Config.validate): the default configuration validates; validate
\* raises ValueError whenever number_of_messages <= 0, wait_time_seconds < 0
\* or window_title_regex is empty; a validate that raised has changed no
\* attribute of the object.
C25_ValidateRejects ==
    /\ []((conf.pc = "validated" /\ conf.edits = 0) => conf.result = "True")
    /\ []((/\ conf.pc = "validated"
           /\ \/ conf.object.number_of_messages <= 0
              \/ conf.object.wait_time_seconds < 0
              \/ conf.object.window_title_regex = "") =>
              conf.result = "ValueError")
    /\ [][(conf'.pc = "validated" /\ conf'.result = "ValueError") =>
              conf'.object = conf.object]_vars

\* validate raised for a configuration of zero messages.
C25_Witness ==
    /\ conf.pc = "validated"
    /\ conf.object.number_of_messages = 0
    /\ conf.object.wait_time_seconds = DefaultWaitTime
    /\ conf.result = "ValueError"

\* The attribute of an object, or "AttributeError" when it has none of
\* that name.
Attribute(object, name) ==
    IF name \in DOMAIN object THEN object[name] ELSE "AttributeError"

\* C26 (language_choice): a Config constructed with the defaults has a
\* language_choice of "both", and validate raises ValueError for an object
\* whose language_choice is none of english, norwegian and both.
C26_LanguageChoice ==
    /\ (conf.pc = "object" /\ conf.edits = 0) =>
          Attribute(conf.object, "language_choice") = "both"
    /\ (/\ conf.pc = "validated"
        /\ "language_choice" \in DOMAIN conf.object
        /\ conf.object.language_choice
              \notin {"english", "norwegian", "both"}) =>
          conf.result = "ValueError"

RoundTripFields ==
    {"number_of_messages", "wait_time_seconds", "window_title_regex",
     "language_choice"}

\* C27 (persistence round trip): the object load_from_file builds from the
\* file save_to_file wrote has the number_of_messages, wait_time_seconds,
\* window_title_regex and language_choice of the saved object, and the
\* object from_dict builds has those the dictionary carries.
C27_ConfigRoundTrip ==
    /\ conf.pc = "loaded" =>
          \A f \in RoundTripFields \cap DOMAIN conf.object :
              /\ f \in DOMAIN conf.loaded
              /\ conf.loaded[f] = conf.object[f]
    /\ conf.pc = "from_dict" =>
          \A f \in RoundTripFields \cap DOMAIN conf.data :
              /\ f \in DOMAIN conf.loaded
              /\ conf.loaded[f] = conf.data[f]

\* C28 (exit code of the command-line driver): the process exits with code
\* 0 exactly when the run returned no error and at least one message was
\* sent (a partial success included), and with a non-zero code exactly when
\* the run returned an error or no message was sent.
C28_ExitCode ==
    pc = "exited" =>
        LET result == results[Len(results)]
        IN  /\ hist.exit_code = 0 <=>
                  (result.error = NoError /\ result.success >= 1)
            /\ hist.exit_code > 0 <=>
                  (result.error # NoError \/ result.success = 0)

\* A partial success: two messages asked for, one sent, exit code 0.
C28_Witness ==
    /\ pc = "exited"
    /\ hist.exit_code = 0
    /\ results[1].error = NoError
    /\ results[1].success = 1
    /\ results[1].total = 2

\* The texts of a sequence of writes that are not blank, joined in order.
NonBlank(writes) ==
    join(SelectSeq(writes, LAMBDA t : t \notin {"", " ", "\n"}), "")

\* C29 (log coalescing and delivery): a write emits nothing; the expiry of
\* the timer and a flush deliver everything written since the last
\* emission in one emission; and after a flush the emitted texts, joined,
\* are the non-blank writes, joined in write order, and the buffer is empty.
C29_CoalescedDelivery ==
    /\ [][stream'.last = "write" => stream'.emitted = stream.emitted]_vars
    /\ [][stream'.last \in {"timeout", "flush"} =>
            /\ Len(stream'.emitted) <= Len(stream.emitted) + 1
            /\ join(stream'.emitted, "") = NonBlank(stream'.writes)]_vars
    /\ [](stream.last = "flush" =>
            /\ join(stream.emitted, "") = NonBlank(stream.writes)
            /\ stream.buffer = <<>>
            /\ ~stream.active)

\* Two writes while the timer was pending came out as one emission, a
\* later write as a second one at the flush.
C29_Witness ==
    /\ stream.last = "flush"
    /\ stream.writes = <<"a", "b\n", "a">>
    /\ stream.emitted = <<"ab\n", "a">>

\* The calls a handler makes on the worker and its thread, in the order the
\* hard stop allows them.
StopOrder == <<"stop", "quit", "wait", "terminate">>

\* C30 (hard termination is a last resort): on a test timeout and on closing
\* the window during a test, the calls made on the worker and its thread are
\* stop, quit, wait, terminate in that order; terminate is called only on a
\* thread that was asked to stop in an earlier step and was still running when
\* the wait ended, and a thread that finished within the wait is never
\* terminated.
C30_TerminateLastResort ==
    /\ [](IsPrefix(hist.thread_calls, StopOrder))
    /\ [](pc = "terminated" <=> hist.thread_calls = StopOrder)
    /\ [][(pc' = "terminated" /\ pc # "terminated") =>
              /\ _should_stop
              /\ hist.thread_calls = <<"stop", "quit">>
              /\ pc # "returned"]_vars
    /\ [][hist.thread_calls = <<"stop", "quit", "wait">> =>
              /\ pc' = pc
              /\ hist'.thread_calls = hist.thread_calls]_vars

\* The window was closed while the message loop was running and the thread
\* was killed after the wait had expired.
C30_Witness ==
    /\ pc = "terminated"
    /\ hist.handler = "closeEvent"
    /\ hist.stop_in_loop
    /\ hist.thread_calls = StopOrder
    /\ hist.activated # {}

\* C32 (inter-message delay): when the message loop has run to its end, the
\* delay has been slept after every message but the last, whatever became of
\* the message, and not after the last one.
C32_DelayAfterEveryMessage ==
    (pc = "done" /\ hist.started # {}) =>
        hist.slept = 1..(config.number_of_messages - 1)

\* C33 (known-pattern phase): patterns are tried in list order; for each
\* pattern the identifier lookup comes first and, whenever it yields no ready
\* node (nothing found, or a node that fails readiness validation), the role's
\* second lookup is made for the same pattern before the next pattern, that
\* second lookup being role-based for a text input and title-based otherwise.
C33_SecondLookupPerPattern ==
    /\ [][(loc.pc = "known_auto_id" /\ loc'.exc = "none"
             /\ ~(loc'.pc = "ret" /\ loc'.element # NoElement))
            => (loc'.pc = "known_title" /\ loc'.k = loc.k)]_vars
    /\ [][(loc.pc = "known_title" /\ loc'.pc = "known_auto_id")
            => loc'.k = loc.k + 1]_vars
    /\ [](loc.pc = "known_title" => loc.element_type # "text_input")

\* C37 (a locate call never raises): no error of the backend during a lookup
\* leaves the locator, in the known-pattern phase or in discovery; the lookup
\* counts as a miss, so a locate call that returns without an element does so
\* from the discovery phase, after every pattern has been tried.
C37_LocateNeverRaises ==
    /\ [](loc.exc = "none")
    /\ [][(loc.pc # "ret" /\ loc'.pc = "ret" /\ loc'.element = NoElement)
            => loc.pc \in {"discover", "cand_auto_id", "cand_title",
                           "cand_control_type"}]_vars

\* C34 (order of the steps of one message): within one iteration the content
\* is cleared only after the text input was located, the message is typed
\* only right after the clear, the send control is located only after the
\* message was typed, the wait only follows a located send control, and the
\* click only follows the wait; a message is counted as activated only by its
\* click.
C34_IterationOrder ==
    /\ [][(pc' = "clear" /\ pc # "clear") =>
              /\ pc = "text_locate" /\ loc.pc = "ret"
              /\ loc.element # NoElement /\ loc.exc = "none"
              /\ i' = i]_vars
    /\ [][(pc' = "type" /\ pc # "type") => (pc = "clear" /\ i' = i)]_vars
    /\ [][(pc' = "send_locate" /\ pc # "send_locate") =>
              (pc = "type" /\ i' = i)]_vars
    /\ [][(pc' = "wait" /\ pc # "wait") =>
              /\ pc = "send_locate" /\ loc.pc = "ret"
              /\ loc.element # NoElement /\ loc.exc = "none"
              /\ i' = i]_vars
    /\ [][(pc' = "click" /\ pc # "click") => (pc = "wait" /\ i' = i)]_vars
    /\ [][hist'.activated # hist.activated =>
              (pc = "click" /\ hist'.activated = hist.activated \cup {i})]_vars

\* The first message failed and the second went through every step up to
\* its click.
C34_Witness ==
    /\ pc = "count"
    /\ i = 2
    /\ hist.started = {1, 2}
    /\ hist.activated = {2}

\* A control that triggers a hard-coded known-good rule of the list `role`.
KnownGood(role, control) ==
    CASE role = "text_input" -> contains(lower(control.auto_id), "inputtextbox")
      [] role = "send_button" ->
             \/ contains(lower(control.auto_id), "oldcomposermicbutton")
             \/ contains(lower(control.title), "snakk med copilot")
      [] OTHER -> FALSE

\* A candidate whose only triggered rule is the match of the role's types.
RoleMatchOnly(candidate) ==
    candidate.reasons = <<"control_type: " \o candidate.control.control_type>>

Outranks(role, list) ==
    \A p, q \in 1..Len(list) :
        (KnownGood(role, list[p].control) /\ RoleMatchOnly(list[q])) =>
            (list[p].score > list[q].score /\ p < q)

\* C35 (known-good matches outrank generic role matches): in the candidate
\* lists of a scan of the helper script, a candidate that triggers a
\* known-good rule has a strictly higher score than, and stands before, every
\* candidate whose only triggered rule is the role-type match.
C35_KnownGoodOutranksRole ==
    /\ Outranks("text_input", scan.text_candidates)
    /\ Outranks("send_button", scan.send_candidates)
    /\ Outranks("new_conversation", scan.new_conv_candidates)

\* A plain button was enumerated before the known send button, and the list
\* has the known send button first.
C35_Witness ==
    /\ scan.pc = "send"
    /\ Len(scan.send_candidates) = 2
    /\ scan.descendants[1].auto_id = ""
    /\ scan.send_candidates[1].control.auto_id = "OldComposerMicButton"
    /\ RoleMatchOnly(scan.send_candidates[2])

\* C31 (finished is emitted exactly once): every call of StressTestWorker.run
\* that returns has emitted the finished signal once, whichever way it went:
\* a completed run, a run that returned an error, an exception, a stop
\* requested before execution, or a failed import of the automation module.
C31_FinishedExactlyOnce ==
    /\ pc = "returned" => hist.finished = 1
    /\ hist.finished <= 1

\* C36 (at most one test at a time): a start_test made while a test thread
\* is running only shows its warning: it creates no worker, thread or timer,
\* and the worker, thread, timer and run of the test in progress are as they
\* were; no worker is ever created while a thread is running.
C36_OneTestAtATime ==
    /\ [][(gui.thread = "running" /\ gui'.warned /\ ~gui.warned) =>
              /\ gui' = [gui EXCEPT !.warned = TRUE]
              /\ <<pc, _should_stop, results, hist, loc>>'
                    = <<pc, _should_stop, results, hist, loc>>]_vars
    /\ [][gui.thread = "running" => gui'.created = gui.created]_vars
    /\ [](gui.created <= 1)

\* start_test was called while the message loop of the running test was at
\* its second message; the test went on.
C36_Witness ==
    /\ gui.warned
    /\ gui.thread = "running"
    /\ gui.timer = "active"
    /\ gui.created = 1
    /\ pc = "click"
    /\ i = 2

\* C39 (a successful completion is reported only for a fully successful
\* run): the "completed successfully" dialog is shown only when run returned
\* a result without error whose success and total both equal the configured
\* number of messages, at least one; never for a run that timed out, was
\* terminated, or was stopped before execution.
C39_SuccessReportedOnlyForSuccess ==
    gui.report = "success" =>
        /\ results # <<>>
        /\ results[Len(results)].error = NoError
        /\ results[Len(results)].success = config.number_of_messages
        /\ results[Len(results)].total = config.number_of_messages
        /\ config.number_of_messages >= 1
        /\ hist.handler # "on_test_timeout"
        /\ pc # "terminated"

\* C38 (nothing is left in the throttle buffer at finished): when run emits
\* finished, the buffer of the stream is empty and everything the run wrote
\* has been emitted, in order.
C38_BufferEmptyAtFinished ==
    stream.last = "finished" =>
        /\ stream.buffer = <<>>
        /\ join(stream.emitted, "") = NonBlank(stream.writes)

\* A print was still in the buffer when run reached its finally clause.
C38_Witness ==
    /\ stream.last = "finished"
    /\ stream.writes = <<"INFO - a\n", "a", "INFO - Worker thread finishing\n">>
    /\ stream.emitted = <<"INFO - a\n", "a", "INFO - Worker thread finishing\n">>

\* The Start button is enabled and no worker or thread is referenced.
Recovered == gui.button /\ ~gui.worker /\ gui.thread = "None"

====
